---- MODULE Spec2Model ----
(***************************************************************************)
(* Model of the crossword robot's turn orchestrator (src/main.py), its     *)
(* clue arbitration functions (src/crossword_prompt.py and                 *)
(* src/crossword_prompt_emotion.py) and the emotion span aggregator        *)
(* (src/video/emotion_detector.py).                                        *)
(*                                                                         *)
(* Strings of the program whose characters matter (patterns, answers) are  *)
(* sequences of one-character strings; an exception is a record whose exc  *)
(* field names it.                                                         *)
(***************************************************************************)
EXTENDS Integers, Sequences, FiniteSets, TLC

VARIABLES
    \* ---- clue arbitration (pure functions applied to a snapshot) ----
    state,          \* the snapshot the arbitration function is applied to
    fn,             \* the arbitration function last applied ("none" at first)
    ret,            \* what it returned (or raised)
    \* ---- emotion span aggregator (video/emotion_detector.py) ----
    clock,          \* time.time(), in sampling periods
    _emo_spans,     \* self._emo_spans: the buffered (label, duration) spans
    current_emotion,\* self.current_emotion ("None" or a label)
    _span_start,    \* self._span_start
    _stop_event,    \* self._stop_event.is_set()
    _lock,          \* holder of self._lock: "free" or "caller"
    s_pc,           \* the sampler thread's position in _run
    s_now,          \* _run's local now
    s_label,        \* _run's local label
    s_duration,     \* _run's local duration
    last_ts,        \* _run's local last_ts
    m_pc,           \* the calling thread's position in start / drain / stop
    m_now,          \* get_summary_and_reset's local now
    m_duration,     \* get_summary_and_reset's local duration
    returned,       \* total of the durations returned since start()
    first_ts,       \* the time of the sample that gave the first label (-1: none yet)
    start_ts,       \* the time the last start() gave self._span_start
    faulted,        \* the classifier has raised since start()
    restarted,      \* start() has been called while the sampler thread was alive
    m_exc,          \* the exception the caller's last call raised ("none" if none)
    stop_ts,        \* the time _run read after its loop ended (-1: still in the loop)
    \* ---- turn orchestrator (main.py) ----
    pc,             \* the main thread's position in the loop
    silence,        \* time.time() - transcriber.last_activity, in ticks, capped
    idle_sec,       \* idle_sec
    user_input,     \* user_input ("None" when the poll gave nothing)
    turn_idx,       \* turn_idx
    history,        \* history
    completed_set,  \* completed_set
    recently_completed, \* recently_completed
    crossword_state,\* crossword_state, the snapshot of the turn
    system_msg_text,\* system_msg_text, the context handed to the generator
    transcription_queue, \* transcriber.transcription_queue
    tr_alive,       \* transcriber.is_alive()
    listening,      \* the transcriber is not paused
    state_ready,    \* state_ready.is_set()
    requested,      \* a "request_state" event is with the board owner
    game_state,     \* game_state, the board owner's last published state
    stale,          \* the turn printed the snapshot-timeout warning
    exc,            \* the exception that ended the loop ("none" if none)
    reported,       \* per clue key, the number of turns that reported it completed
    records,        \* the log records of pdata so far, each <<kind, turn index>>
    spoken_over,    \* how many entries at the end of the queue were put there while the robot spoke
    stopped,        \* the background producers the finally block has stopped
    transcriber,    \* which transcriber instance the variable transcriber is bound to (1: the first)
    acted_on,       \* the instance the last pause, resume, drain or idle-clock reset acted on
    emo_window,     \* the phases time has passed in since the last get_summary_and_reset()
    emo_drains,     \* the drains of the loop so far, each <<turn index, phases it covers>>
    messages        \* messages, what the last call of the text generator was given

arbVars == <<state, fn, ret>>

detVars == <<clock, _emo_spans, current_emotion, _span_start, _stop_event, _lock,
             s_pc, s_now, s_label, s_duration, last_ts, m_pc, m_now, m_duration,
             returned, first_ts, start_ts, faulted, restarted, m_exc, stop_ts>>

mainVars == <<pc, silence, idle_sec, user_input, turn_idx, history, completed_set,
              recently_completed, crossword_state, system_msg_text, transcription_queue,
              tr_alive, listening, state_ready, requested, game_state,
              stale, exc, reported,
              records,
              spoken_over,
              stopped,
              transcriber,
              acted_on,
              emo_window,
              emo_drains,
              messages>>

vars == <<arbVars, detVars, mainVars>>

(***************************************************************************)
(* Bounds                                                                  *)
(***************************************************************************)
\* entries listed per direction in an enumerated snapshot
MaxEntries == 2

\* the sampler's clock stops advancing at MaxTime (in sampling periods)
MaxTime == 3

\* turns the orchestrator starts
MaxTurns == 3

\* utterances waiting in the transcription queue
MaxQueue == 1

\* transcriber instances created in a session (the first and its replacements)
MaxInstances == 2


(***************************************************************************)
(* Generic helpers                                                         *)
(***************************************************************************)
Min(a, b) == IF a < b THEN a ELSE b

Ok(v) == [exc |-> "none", val |-> v]

Raise(e) == [exc |-> e, val |-> <<>>]

\* "0" in pat
HasEmpty(pat) == \E i \in 1..Len(pat) : pat[i] = "0"

(***************************************************************************)
(* crossword_prompt.py: clue table                                         *)
(***************************************************************************)
\* The table of the model keeps the first two across and the first two down
\* clues of the source's table, in the source's order.
CROSSWORD_CLUES ==
    << [direction |-> "across", number |-> 2,
        hint |-> "Country famous for Mozart and the Alps",
        answer |-> <<"A","U","S","T","R","I","A">>],
       [direction |-> "across", number |-> 5,
        hint |-> "Country whose canal connects the Atlantic and Pacific oceans",
        answer |-> <<"P","A","N","A","M","A">>],
       [direction |-> "down", number |-> 1,
        hint |-> "Country whose motto is Liberte, Egalite, Fraternite",
        answer |-> <<"F","R","A","N","C","E">>],
       [direction |-> "down", number |-> 3,
        hint |-> "European country whose capital is Madrid, famous for paella",
        answer |-> <<"S","P","A","I","N">>] >>

\* kdir[0].upper()
DirLetter(kdir) == IF kdir = "across" THEN "A" ELSE "D"

\* int(num_str) on the clue labels a snapshot of the model can hold
int(num_str) ==
    CASE num_str = "1" -> 1
      [] num_str = "2" -> 2
      [] num_str = "3" -> 3
      [] num_str = "5" -> 5
      [] num_str = "99" -> 99

\* str(n), the inverse on the same labels
str(n) ==
    CASE n = 1 -> "1"
      [] n = 2 -> "2"
      [] n = 3 -> "3"
      [] n = 5 -> "5"
      [] n = 99 -> "99"

ClueKeys ==
    { <<DirLetter(CROSSWORD_CLUES[i].direction), CROSSWORD_CLUES[i].number>> :
        i \in 1..Len(CROSSWORD_CLUES) }

\* index of a key in the clue table (table-declaration order)
TableIndex(key) ==
    CHOOSE i \in 1..Len(CROSSWORD_CLUES) :
        <<DirLetter(CROSSWORD_CLUES[i].direction), CROSSWORD_CLUES[i].number>> = key

\* _CLUE_LOOKUP[key]; the caller tests key \in ClueKeys first (else KeyError)
_CLUE_LOOKUP(key) == CROSSWORD_CLUES[TableIndex(key)]

(***************************************************************************)
(* crossword_prompt.py: helpers                                            *)
(***************************************************************************)
RECURSIVE CountFilled(_, _)
CountFilled(p, i) ==
    IF i > Len(p) THEN 0
    ELSE (IF p[i] # "0" THEN 1 ELSE 0) + CountFilled(p, i + 1)

_letters_filled(p) == CountFilled(p, 1)

_pretty(p) == [i \in 1..Len(p) |-> IF p[i] = "0" THEN "_" ELSE p[i]]

\* pat.ljust(n, "0")
ljust(pat, n) ==
    IF Len(pat) >= n THEN pat
    ELSE pat \o [i \in 1..(n - Len(pat)) |-> "0"]

\* mutant: an empty cell counts as a mismatch too
HasMismatchNoEmptyTest(pat, ans) ==
    \E i \in 1..Min(Len(ljust(pat, Len(ans))), Len(ans)) :
        ljust(pat, Len(ans))[i] # ans[i]

\* any(ch != "0" and ch != a for ch, a in zip(pat.ljust(len(ans), "0"), ans))
HasMismatch(pat, ans) ==
    \E i \in 1..Min(Len(ljust(pat, Len(ans))), Len(ans)) :
        /\ ljust(pat, Len(ans))[i] # "0"
        /\ ljust(pat, Len(ans))[i] # ans[i]

\* the message _find_errors appends for one clue (crossword_prompt.py)
ErrorMsg(kdir, num, pat) ==
    [dir |-> DirLetter(kdir), num |-> num,
     hint |-> _CLUE_LOOKUP(<<DirLetter(kdir), num>>).hint,
     typed |-> _pretty(pat),
     internal |-> _CLUE_LOOKUP(<<DirLetter(kdir), num>>).answer]

\* the inner loop of _find_errors over state[kdir].items(), from item i on
RECURSIVE FindErrorsDir(_, _, _)
FindErrorsDir(kdir, items, i) ==
    IF i > Len(items) THEN Ok(<<>>)
    ELSE IF items[i][1] = "undefined" \/ items[i][2] = <<>>
         THEN FindErrorsDir(kdir, items, i + 1)
    ELSE IF <<DirLetter(kdir), int(items[i][1])>> \notin ClueKeys
         THEN Raise("KeyError")
    ELSE LET rest == FindErrorsDir(kdir, items, i + 1)
             ans == _CLUE_LOOKUP(<<DirLetter(kdir), int(items[i][1])>>).answer
         IN  IF rest.exc # "none" THEN rest
             ELSE IF HasMismatch(items[i][2], ans)
                  THEN Ok(<<ErrorMsg(kdir, int(items[i][1]), items[i][2])>> \o rest.val)
                  ELSE rest

\* state[kdir] raises KeyError when the snapshot lacks the direction mapping.
\* A snapshot is [keys, across, down, clue_context]: keys holds the names
\* of the mappings the dict has (the empty dict has none).
Items(st, kdir) == IF kdir = "across" THEN st.across ELSE st.down

_find_errors(st) ==
    IF "across" \notin st.keys THEN Raise("KeyError")
    ELSE LET a == FindErrorsDir("across", st.across, 1)
         IN  IF a.exc # "none" THEN a
             ELSE IF "down" \notin st.keys THEN Raise("KeyError")
             ELSE LET d == FindErrorsDir("down", st.down, 1)
                  IN  IF d.exc # "none" THEN d ELSE Ok(a.val \o d.val)

\* crossword_prompt_emotion.py: the same loop with a_CLUE_LOOKUP.get(...) and
\* "if not clue: continue"; its message carries no answer
ErrorMsgEmotion(kdir, num, pat) ==
    [dir |-> DirLetter(kdir), num |-> num,
     hint |-> _CLUE_LOOKUP(<<DirLetter(kdir), num>>).hint,
     typed |-> _pretty(pat)]

RECURSIVE FindErrorsDirEmotion(_, _, _)
FindErrorsDirEmotion(kdir, items, i) ==
    IF i > Len(items) THEN <<>>
    ELSE IF items[i][1] = "undefined" \/ items[i][2] = <<>>
         THEN FindErrorsDirEmotion(kdir, items, i + 1)
    ELSE IF <<DirLetter(kdir), int(items[i][1])>> \notin ClueKeys
         THEN FindErrorsDirEmotion(kdir, items, i + 1)
    ELSE IF HasMismatch(items[i][2],
                        _CLUE_LOOKUP(<<DirLetter(kdir), int(items[i][1])>>).answer)
         THEN <<ErrorMsgEmotion(kdir, int(items[i][1]), items[i][2])>>
                \o FindErrorsDirEmotion(kdir, items, i + 1)
    ELSE FindErrorsDirEmotion(kdir, items, i + 1)

_find_errors_emotion(st) ==
    IF "across" \notin st.keys \/ "down" \notin st.keys THEN Raise("KeyError")
    ELSE Ok(FindErrorsDirEmotion("across", st.across, 1)
              \o FindErrorsDirEmotion("down", st.down, 1))

\* the scan of _choose_focal over state[kdir].items(), from item i on:
\* <<>> when no item of the direction has an empty cell
RECURSIVE FocalScan(_, _, _)
FocalScan(kdir, items, i) ==
    IF i > Len(items) THEN <<>>
    ELSE IF items[i][1] # "undefined" /\ HasEmpty(items[i][2])
         THEN <<DirLetter(kdir), int(items[i][1])>>
    ELSE FocalScan(kdir, items, i + 1)

_choose_focal(st) ==
    IF "clue_context" \in st.keys /\ st.clue_context.clueLabel # "None"
    THEN Ok(<<DirLetter(st.clue_context.direction), int(st.clue_context.clueLabel)>>)
    ELSE IF "across" \notin st.keys THEN Raise("KeyError")
    ELSE IF FocalScan("across", st.across, 1) # <<>>
         THEN Ok(FocalScan("across", st.across, 1))
    ELSE IF "down" \notin st.keys THEN Raise("KeyError")
    ELSE IF FocalScan("down", st.down, 1) # <<>>
         THEN Ok(FocalScan("down", st.down, 1))
    ELSE Ok(<<DirLetter(CROSSWORD_CLUES[1].direction), CROSSWORD_CLUES[1].number>>)

\* tuple order of the items _interesting sorts: (-filled, letter, num, ...);
\* (letter, num) is unique among the items, so the later fields never decide
ItemLess(a, b) ==
    \/ a.negfilled < b.negfilled
    \/ /\ a.negfilled = b.negfilled
       /\ \/ (a.dir = "A" /\ b.dir = "D")
          \/ (a.dir = b.dir /\ a.num < b.num)

\* mutant: fewest filled letters first
SortInsertAscendingFill(x, sorted) ==
    LET n == Cardinality({j \in 1..Len(sorted) : sorted[j].negfilled >= x.negfilled})
    IN  SubSeq(sorted, 1, n) \o <<x>> \o SubSeq(sorted, n + 1, Len(sorted))

\* items.sort(): insertion of x into an already sorted list
SortInsert(x, sorted) ==
    LET n == Cardinality({j \in 1..Len(sorted) : ItemLess(sorted[j], x)})
    IN  SubSeq(sorted, 1, n) \o <<x>> \o SubSeq(sorted, n + 1, Len(sorted))

RECURSIVE SortItems(_)
SortItems(items) ==
    IF items = <<>> THEN <<>>
    ELSE SortInsert(Head(items), SortItems(Tail(items)))

\* the candidates _interesting collects from state[kdir].items(), from item i on
RECURSIVE InterestingDir(_, _, _, _)
InterestingDir(kdir, items, excl, i) ==
    IF i > Len(items) THEN Ok(<<>>)
    ELSE IF items[i][1] = "undefined"
         THEN InterestingDir(kdir, items, excl, i + 1)
    ELSE IF <<DirLetter(kdir), int(items[i][1])>> = excl \/ ~HasEmpty(items[i][2])
         THEN InterestingDir(kdir, items, excl, i + 1)
    ELSE IF <<DirLetter(kdir), int(items[i][1])>> \notin ClueKeys
         THEN Raise("KeyError")
    ELSE LET rest == InterestingDir(kdir, items, excl, i + 1)
         IN  IF rest.exc # "none" THEN rest
             ELSE Ok(<< [negfilled |-> 0 - _letters_filled(items[i][2]),
                         dir |-> DirLetter(kdir), num |-> int(items[i][1]),
                         pat |-> items[i][2],
                         ans |-> _CLUE_LOOKUP(<<DirLetter(kdir), int(items[i][1])>>).answer] >>
                     \o rest.val)

\* the line of the prompt for one pick
PickMsg(it) == [dir |-> it.dir, num |-> it.num, typed |-> _pretty(it.pat),
                internal |-> it.ans]

_interesting(st, excl, k) ==
    IF "across" \notin st.keys THEN Raise("KeyError")
    ELSE LET a == InterestingDir("across", st.across, excl, 1)
         IN  IF a.exc # "none" THEN a
             ELSE IF "down" \notin st.keys THEN Raise("KeyError")
             ELSE LET d == InterestingDir("down", st.down, excl, 1)
                  IN  IF d.exc # "none" THEN d
                      ELSE LET sorted == SortItems(a.val \o d.val)
                           IN  Ok([j \in 1..Min(k, Len(sorted)) |-> PickMsg(sorted[j])])

\* the cells _snapshot collects from state[kdir].items(), from item i on
RECURSIVE SnapshotCells(_, _, _, _)
SnapshotCells(kdir, items, excl, i) ==
    IF i > Len(items) THEN <<>>
    ELSE IF items[i][1] = "undefined"
         THEN SnapshotCells(kdir, items, excl, i + 1)
    ELSE IF <<DirLetter(kdir), int(items[i][1])>> \in excl \/ ~HasEmpty(items[i][2])
         THEN SnapshotCells(kdir, items, excl, i + 1)
    ELSE <<[num |-> int(items[i][1]), typed |-> _pretty(items[i][2])]>>
            \o SnapshotCells(kdir, items, excl, i + 1)

\* mutant: the exclusion set is ignored
_snapshot_excluding_nothing(st, excl) ==
    IF "across" \notin st.keys \/ "down" \notin st.keys THEN Raise("KeyError")
    ELSE LET a == SnapshotCells("across", st.across, {}, 1)
             d == SnapshotCells("down", st.down, {}, 1)
             rows == (IF a # <<>> THEN <<[dir |-> "A", cells |-> a]>> ELSE <<>>)
                      \o (IF d # <<>> THEN <<[dir |-> "D", cells |-> d]>> ELSE <<>>)
         IN  Ok([rows |-> rows, all_filled |-> (rows = <<>>)])

\* the rows joined by " | ", or the sentinel "(all filled!)" when there is none
_snapshot(st, excl) ==
    IF "across" \notin st.keys \/ "down" \notin st.keys THEN Raise("KeyError")
    ELSE LET a == SnapshotCells("across", st.across, excl, 1)
             d == SnapshotCells("down", st.down, excl, 1)
             rows == (IF a # <<>> THEN <<[dir |-> "A", cells |-> a]>> ELSE <<>>)
                      \o (IF d # <<>> THEN <<[dir |-> "D", cells |-> d]>> ELSE <<>>)
         IN  Ok([rows |-> rows, all_filled |-> (rows = <<>>)])

\* crossword_prompt_emotion.py: ctx = game_state.get('clue_context', {});
\* "if ctx and ctx.get('clueLabel') is not None", then the same scan
_choose_focal_emotion(st) ==
    IF "clue_context" \in st.keys /\ st.clue_context.clueLabel # "None"
    THEN Ok(<<DirLetter(st.clue_context.direction), int(st.clue_context.clueLabel)>>)
    ELSE IF "across" \notin st.keys THEN Raise("KeyError")
    ELSE IF FocalScan("across", st.across, 1) # <<>>
         THEN Ok(FocalScan("across", st.across, 1))
    ELSE IF "down" \notin st.keys THEN Raise("KeyError")
    ELSE IF FocalScan("down", st.down, 1) # <<>>
         THEN Ok(FocalScan("down", st.down, 1))
    ELSE Ok(<<DirLetter(CROSSWORD_CLUES[1].direction), CROSSWORD_CLUES[1].number>>)

\* crossword_prompt_emotion.py: the group _summarise_rest collects from
\* game_state[dir_key].items(), from item i on
RECURSIVE SummariseGroup(_, _, _, _)
SummariseGroup(dir_key, items, exclude_set, i) ==
    IF i > Len(items) THEN <<>>
    ELSE IF items[i][1] = "undefined"
         THEN SummariseGroup(dir_key, items, exclude_set, i + 1)
    ELSE IF <<DirLetter(dir_key), int(items[i][1])>> \in exclude_set
              \/ ~HasEmpty(items[i][2])
         THEN SummariseGroup(dir_key, items, exclude_set, i + 1)
    ELSE <<[num |-> int(items[i][1]), typed |-> _pretty(items[i][2])]>>
            \o SummariseGroup(dir_key, items, exclude_set, i + 1)

\* the lines joined by " | ", or "(all filled!)" when there is none
_summarise_rest(st, exclude_set) ==
    IF "across" \notin st.keys \/ "down" \notin st.keys THEN Raise("KeyError")
    ELSE LET a == SummariseGroup("across", st.across, exclude_set, 1)
             d == SummariseGroup("down", st.down, exclude_set, 1)
             lines == (IF a # <<>> THEN <<[dir |-> "A", cells |-> a]>> ELSE <<>>)
                       \o (IF d # <<>> THEN <<[dir |-> "D", cells |-> d]>> ELSE <<>>)
         IN  Ok([rows |-> lines, all_filled |-> (lines = <<>>)])

\* game_state[...][str(n)]: the items of the mapping whose label is str(n)
DictGet(items, label) == {i \in 1..Len(items) : items[i][1] = label}

\* mutant: the threshold itself does not count as idle
IdleSectionStrict(silence_seconds, idle_threshold) == silence_seconds > idle_threshold

\* if silence_seconds >= idle_threshold: the "### IDLE" block is appended
IdleSection(silence_seconds, idle_threshold) == silence_seconds >= idle_threshold

\* create_system_prompt(game_state, silence_seconds, idle_threshold,
\* recently_completed): the variable parts of the prompt, or the KeyError it raises
create_system_prompt(g_state, silence_seconds, idle_threshold, recently) ==
    LET errs == _find_errors(g_state)
        foc == _choose_focal(g_state)
    IN  IF errs.exc # "none" THEN Raise(errs.exc)
        ELSE IF foc.exc # "none" THEN Raise(foc.exc)
        ELSE IF foc.val \notin ClueKeys THEN Raise("KeyError")
        ELSE LET d == foc.val[1]
                 n == foc.val[2]
                 items == Items(g_state, IF d = "A" THEN "across" ELSE "down")
                 picks == _interesting(g_state, foc.val, 2)
                 rest == _snapshot(g_state, {foc.val})
             IN  IF DictGet(items, str(n)) = {} THEN Raise("KeyError")
                 ELSE IF picks.exc # "none" THEN Raise(picks.exc)
                 ELSE IF rest.exc # "none" THEN Raise(rest.exc)
                 ELSE Ok([errors |-> errs.val,
                          solved |-> recently,
                          focal |-> foc.val,
                          focal_hint |-> _CLUE_LOOKUP(foc.val).hint,
                          focal_pattern |->
                              _pretty(items[CHOOSE i \in DictGet(items, str(n)) : TRUE][2]),
                          focal_internal |-> _CLUE_LOOKUP(foc.val).answer,
                          picks |-> picks.val,
                          rest |-> rest.val,
                          idle |-> IdleSection(silence_seconds, idle_threshold)])

(***************************************************************************)
(* Snapshots the board owner can publish (the inputs of the arbitration)   *)
(***************************************************************************)
AcrossEntries ==
    { <<"2", <<"A","U","S","T","R","0","0">> >>,
      <<"2", <<"A","U","0","0","0","0","0">> >>,
      <<"2", <<"A","U","S","T","R","I","A">> >>,
      <<"5", <<"P","A","N","A","M","0">> >>,
      <<"5", <<"P","A","N","A","D","A">> >>,
      <<"5", <<"P","A","N","A","M","A">> >>,
      <<"5", <<"0","0","0","0","0","0">> >>,
      <<"5", <<"P","A","N">> >>,
      <<"5", <<>> >>,
      <<"99", <<"X","0">> >>,
      <<"undefined", <<"0">> >> }

DownEntries ==
    { <<"1", <<"F","R","0","0","0","0">> >>,
      <<"1", <<"F","R","A","N","C","E">> >>,
      <<"3", <<"S","P","0","0","0">> >> }

\* the listings of at most MaxEntries entries with distinct labels
Listings(entries) ==
    { s \in UNION { [1..n -> entries] : n \in 0..MaxEntries } :
        \A i, j \in 1..Len(s) : i # j => s[i][1] # s[j][1] }

\* the clue_context the UI may send: none, no label, or an explicit clue
ClueContexts ==
    { [present |-> FALSE, clueLabel |-> "None", direction |-> "across"],
      [present |-> TRUE, clueLabel |-> "None", direction |-> "across"],
      [present |-> TRUE, clueLabel |-> "5", direction |-> "across"] }

MakeState(a, d, ctx) ==
    [keys |-> {"across", "down"} \cup (IF ctx.present THEN {"clue_context"} ELSE {}),
     across |-> a, down |-> d,
     clue_context |-> [clueLabel |-> ctx.clueLabel, direction |-> ctx.direction]]

Snapshots ==
    { MakeState(a, d, ctx) :
        a \in Listings(AcrossEntries), d \in Listings(DownEntries), ctx \in ClueContexts }

(***************************************************************************)
(* SpecArb: each arbitration function applied to every snapshot            *)
(***************************************************************************)
InitArb ==
    /\ state \in Snapshots
    /\ fn = "none"
    /\ ret = Ok(<<>>)

CallFindErrors ==
    /\ fn = "none"
    /\ fn' = "_find_errors"
    /\ ret' = [prompt |-> _find_errors(state), emotion |-> _find_errors_emotion(state)]
    /\ UNCHANGED <<state, detVars, mainVars>>

CallChooseFocal ==
    /\ fn = "none"
    /\ fn' = "_choose_focal"
    /\ ret' = _choose_focal(state)
    /\ UNCHANGED <<state, detVars, mainVars>>

\* _interesting(state, focal) with its default k, as create_system_prompt calls it
CallInteresting ==
    /\ fn = "none"
    /\ _choose_focal(state).exc = "none"
    /\ fn' = "_interesting"
    /\ ret' = [excl |-> _choose_focal(state).val, k |-> 2,
               out |-> _interesting(state, _choose_focal(state).val, 2)]
    /\ UNCHANGED <<state, detVars, mainVars>>

(***************************************************************************)
(* video/emotion_detector.py: EmotionDetector                              *)
(*                                                                         *)
(* Time is counted in sampling periods (1 / fps seconds), so every         *)
(* duration is a whole number of periods and round(..., 2) leaves it as it *)
(* is. Each action is one read or write of a field shared between the      *)
(* sampler thread (_run) and the calling thread; the clock may advance     *)
(* between any two of them. A local variable is set back to its initial    *)
(* value once it is dead (never read again before it is assigned).         *)
(***************************************************************************)
\* period = 1.0 / self.fps, in clock units
Period == 1

\* the labels the classifier returns ("no-face" when it detects nothing)
Labels == {"happy", "no-face"}

RECURSIVE SumDur(_)
SumDur(spans) == IF spans = <<>> THEN 0 ELSE Head(spans)[2] + SumDur(Tail(spans))

\* self._thread.is_alive()
ThreadAlive == s_pc \notin {"unstarted", "exited", "crashed"}

\* __init__ (the thread is created, not started)
InitDet ==
    /\ clock = Period
    /\ _emo_spans = <<>>
    /\ current_emotion = "None"
    /\ _span_start = Period
    /\ _stop_event = FALSE
    /\ _lock = "free"
    /\ s_pc = "unstarted"
    /\ s_now = 0
    /\ s_label = "None"
    /\ s_duration = 0
    /\ last_ts = 0
    /\ m_pc = "idle"
    /\ m_now = 0
    /\ m_duration = 0
    /\ returned = 0
    /\ first_ts = -1
    /\ start_ts = Period
    /\ faulted = FALSE
    /\ restarted = FALSE
    /\ m_exc = "none"
    /\ stop_ts = -1

\* time passes
Tick ==
    /\ clock < MaxTime
    /\ clock' = clock + 1
    /\ UNCHANGED <<arbVars, mainVars, _emo_spans, current_emotion, _span_start, _stop_event, _lock,
                   s_pc, s_now, s_label, s_duration, last_ts, m_pc, m_now, m_duration,
                   returned, first_ts, start_ts, faulted, restarted, m_exc, stop_ts>>

\* ---- start() ----
\* self._span_start = time.time()
Start26 ==
    /\ m_pc = "idle"
    /\ _span_start' = clock
    /\ start_ts' = clock
    /\ stop_ts' = -1
    /\ m_pc' = "start_27"
    /\ restarted' = (restarted \/ ThreadAlive)
    /\ m_exc' = "none"
    /\ UNCHANGED <<arbVars, mainVars, clock, _emo_spans, current_emotion, _stop_event, _lock,
                   s_pc, s_now, s_label, s_duration, last_ts, m_now, m_duration,
                   returned, first_ts, faulted>>

\* self.current_emotion = None
Start27 ==
    /\ m_pc = "start_27"
    /\ current_emotion' = "None"
    /\ first_ts' = -1
    /\ m_pc' = "start_28"
    /\ UNCHANGED <<arbVars, mainVars, clock, _emo_spans, _span_start, _stop_event, _lock,
                   s_pc, s_now, s_label, s_duration, last_ts, m_now, m_duration,
                   returned, start_ts, faulted, restarted, m_exc, stop_ts>>

\* self._emo_spans.clear()
Start28 ==
    /\ m_pc = "start_28"
    /\ _emo_spans' = <<>>
    /\ returned' = 0
    /\ m_pc' = "start_29"
    /\ UNCHANGED <<arbVars, mainVars, clock, current_emotion, _span_start, _stop_event, _lock,
                   s_pc, s_now, s_label, s_duration, last_ts, m_now, m_duration,
                   first_ts, start_ts, faulted, restarted, m_exc, stop_ts>>

\* self._stop_event.clear()
Start29 ==
    /\ m_pc = "start_29"
    /\ _stop_event' = FALSE
    /\ m_pc' = "start_30"
    /\ UNCHANGED <<arbVars, mainVars, clock, _emo_spans, current_emotion, _span_start, _lock,
                   s_pc, s_now, s_label, s_duration, last_ts, m_now, m_duration,
                   returned, first_ts, start_ts, faulted, restarted, m_exc, stop_ts>>

\* if not self._thread.is_alive(): new thread, started (its last_ts = 0.0)
Start30 ==
    /\ m_pc = "start_30"
    /\ m_pc' = "idle"
    /\ IF ThreadAlive
       THEN UNCHANGED <<s_pc, last_ts, faulted>>
       ELSE s_pc' = "loop" /\ last_ts' = 0 /\ faulted' = FALSE
    /\ UNCHANGED <<arbVars, mainVars, clock, _emo_spans, current_emotion, _span_start, _stop_event,
                   _lock, s_now, s_label, s_duration, m_now, m_duration,
                   returned, first_ts, start_ts, restarted, m_exc, stop_ts>>

\* ---- _run(), the sampler thread ----
\* while not stop: frame = get_frame(); now = time.time();
\* if now - last_ts >= period: last_ts = now  (a tick with no frame, or one
\* that comes too early, changes nothing)
RunSample ==
    /\ s_pc = "loop"
    /\ IF _stop_event
       THEN s_pc' = "final_60" /\ UNCHANGED <<s_now, last_ts>>
       ELSE /\ clock - last_ts >= Period
            /\ s_now' = clock
            /\ last_ts' = clock
            /\ s_pc' = "classify"
    /\ UNCHANGED <<arbVars, mainVars, clock, _emo_spans, current_emotion, _span_start, _stop_event,
                   _lock, s_label, s_duration, m_pc, m_now, m_duration,
                   returned, first_ts, start_ts, faulted, restarted, m_exc, stop_ts>>

\* label = self._detect_emotion(frame), the classifier returning a label
RunClassify ==
    /\ s_pc = "classify"
    /\ \E l \in Labels : s_label' = l
    /\ s_pc' = "compare"
    /\ UNCHANGED <<arbVars, mainVars, clock, _emo_spans, current_emotion, _span_start, _stop_event,
                   _lock, s_now, s_duration, last_ts, m_pc, m_now, m_duration,
                   returned, first_ts, start_ts, faulted, restarted, m_exc, stop_ts>>

\* _detect_emotion has no try/except and _run none around it: the exception
\* leaves _run and the thread ends, its open span never closed
ClassifierFault ==
    /\ s_pc' = "crashed"
    /\ s_now' = 0
    /\ UNCHANGED s_label

\* label = self._detect_emotion(frame), the classifier raising
RunClassifyRaises ==
    /\ s_pc = "classify"
    /\ faulted' = TRUE
    /\ ClassifierFault
    /\ UNCHANGED <<arbVars, mainVars, clock, _emo_spans, current_emotion, _span_start, _stop_event,
                   _lock, s_duration, last_ts, m_pc, m_now, m_duration,
                   returned, first_ts, start_ts, restarted, m_exc, stop_ts>>

\* if label != self.current_emotion: if self.current_emotion is not None:
RunCompare ==
    /\ s_pc = "compare"
    /\ IF s_label = current_emotion
       THEN s_pc' = "loop" /\ s_now' = 0 /\ s_label' = "None"
       ELSE /\ s_pc' = IF current_emotion # "None" THEN "dur_49" ELSE "setcur_56"
            /\ UNCHANGED <<s_now, s_label>>
    /\ UNCHANGED <<arbVars, mainVars, clock, _emo_spans, current_emotion, _span_start, _stop_event,
                   _lock, s_duration, last_ts, m_pc, m_now, m_duration,
                   returned, first_ts, start_ts, faulted, restarted, m_exc, stop_ts>>

\* duration = round(now - self._span_start, 2)
RunDuration ==
    /\ s_pc = "dur_49"
    /\ s_duration' = s_now - _span_start
    /\ s_pc' = "append_51"
    /\ UNCHANGED <<arbVars, mainVars, clock, _emo_spans, current_emotion, _span_start, _stop_event,
                   _lock, s_now, s_label, last_ts, m_pc, m_now, m_duration,
                   returned, first_ts, start_ts, faulted, restarted, m_exc, stop_ts>>

\* with self._lock: self._emo_spans.append((self.current_emotion, duration))
RunAppend ==
    /\ s_pc = "append_51"
    /\ _lock = "free"
    /\ _emo_spans' = Append(_emo_spans, <<current_emotion, s_duration>>)
    /\ s_pc' = "setcur_56"
    /\ s_duration' = 0
    /\ UNCHANGED <<arbVars, mainVars, clock, current_emotion, _span_start, _stop_event,
                   _lock, s_now, s_label, last_ts, m_pc, m_now, m_duration,
                   returned, first_ts, start_ts, faulted, restarted, m_exc, stop_ts>>

\* self.current_emotion = label
RunSetCurrent ==
    /\ s_pc = "setcur_56"
    /\ current_emotion' = s_label
    /\ first_ts' = IF first_ts = -1 THEN s_now ELSE first_ts
    /\ s_pc' = "setstart_57"
    /\ s_label' = "None"
    /\ UNCHANGED <<arbVars, mainVars, clock, _emo_spans, _span_start, _stop_event,
                   _lock, s_now, s_duration, last_ts, m_pc, m_now, m_duration,
                   returned, start_ts, faulted, restarted, m_exc, stop_ts>>

\* self._span_start = now
RunSetSpanStart ==
    /\ s_pc = "setstart_57"
    /\ _span_start' = s_now
    /\ s_pc' = "loop"
    /\ s_now' = 0
    /\ UNCHANGED <<arbVars, mainVars, clock, _emo_spans, current_emotion, _stop_event,
                   _lock, s_label, s_duration, last_ts, m_pc, m_now, m_duration,
                   returned, first_ts, start_ts, faulted, restarted, m_exc, stop_ts>>

\* after the loop: now = time.time(); if self.current_emotion is not None:
RunFinalNow ==
    /\ s_pc = "final_60"
    /\ stop_ts' = clock
    /\ IF current_emotion # "None"
       THEN s_now' = clock /\ s_pc' = "final_62"
       ELSE s_now' = 0 /\ s_pc' = "exited"
    /\ UNCHANGED <<arbVars, mainVars, clock, _emo_spans, current_emotion, _span_start, _stop_event,
                   _lock, s_label, s_duration, last_ts, m_pc, m_now, m_duration,
                   returned, first_ts, start_ts, faulted, restarted, m_exc>>

\* duration = round(now - self._span_start, 2)
RunFinalDuration ==
    /\ s_pc = "final_62"
    /\ s_duration' = s_now - _span_start
    /\ s_pc' = "final_64"
    /\ s_now' = 0
    /\ UNCHANGED <<arbVars, mainVars, clock, _emo_spans, current_emotion, _span_start, _stop_event,
                   _lock, s_label, last_ts, m_pc, m_now, m_duration,
                   returned, first_ts, start_ts, faulted, restarted, m_exc, stop_ts>>

\* with self._lock: self._emo_spans.append((self.current_emotion, duration))
RunFinalAppend ==
    /\ s_pc = "final_64"
    /\ _lock = "free"
    /\ _emo_spans' = Append(_emo_spans, <<current_emotion, s_duration>>)
    /\ s_pc' = "exited"
    /\ s_duration' = 0
    /\ UNCHANGED <<arbVars, mainVars, clock, current_emotion, _span_start, _stop_event,
                   _lock, s_now, s_label, last_ts, m_pc, m_now, m_duration,
                   returned, first_ts, start_ts, faulted, restarted, m_exc, stop_ts>>

\* ---- get_summary_and_reset(), "drain" ----
\* now = time.time()
Drain75 ==
    /\ m_pc = "idle"
    /\ m_now' = clock
    /\ m_pc' = "drain_76"
    /\ m_exc' = "none"
    /\ UNCHANGED <<arbVars, mainVars, clock, _emo_spans, current_emotion, _span_start, _stop_event,
                   _lock, s_pc, s_now, s_label, s_duration, last_ts, m_duration,
                   returned, first_ts, start_ts, faulted, restarted, stop_ts>>

\* with self._lock: if self.current_emotion is not None and ...
Drain77 ==
    /\ m_pc = "drain_76"
    /\ _lock = "free"
    /\ _lock' = "caller"
    /\ m_pc' = IF current_emotion # "None" THEN "drain_78" ELSE "drain_81"
    /\ UNCHANGED <<arbVars, mainVars, clock, _emo_spans, current_emotion, _span_start, _stop_event,
                   s_pc, s_now, s_label, s_duration, last_ts, m_now, m_duration,
                   returned, first_ts, start_ts, faulted, restarted, m_exc, stop_ts>>

\* duration = round(now - self._span_start, 2)
Drain78 ==
    /\ m_pc = "drain_78"
    /\ m_duration' = m_now - _span_start
    /\ m_pc' = "drain_79"
    /\ UNCHANGED <<arbVars, mainVars, clock, _emo_spans, current_emotion, _span_start, _stop_event,
                   _lock, s_pc, s_now, s_label, s_duration, last_ts, m_now,
                   returned, first_ts, start_ts, faulted, restarted, m_exc, stop_ts>>

\* self._emo_spans.append((self.current_emotion, duration))
Drain79 ==
    /\ m_pc = "drain_79"
    /\ _emo_spans' = Append(_emo_spans, <<current_emotion, m_duration>>)
    /\ m_pc' = "drain_80"
    /\ m_duration' = 0
    /\ UNCHANGED <<arbVars, mainVars, clock, current_emotion, _span_start, _stop_event,
                   _lock, s_pc, s_now, s_label, s_duration, last_ts, m_now, returned, first_ts, start_ts, faulted, restarted, m_exc, stop_ts>>

\* self._span_start = now
Drain80 ==
    /\ m_pc = "drain_80"
    /\ _span_start' = m_now
    /\ m_pc' = "drain_81"
    /\ UNCHANGED <<arbVars, mainVars, clock, _emo_spans, current_emotion, _stop_event,
                   _lock, s_pc, s_now, s_label, s_duration, last_ts, m_now, m_duration,
                   returned, first_ts, start_ts, faulted, restarted, m_exc, stop_ts>>

\* summary = list(self._emo_spans); self._emo_spans.clear(); return summary
Drain81 ==
    /\ m_pc = "drain_81"
    /\ returned' = returned + SumDur(_emo_spans)
    /\ _emo_spans' = <<>>
    /\ _lock' = "free"
    /\ m_pc' = "idle"
    /\ m_now' = 0
    /\ UNCHANGED <<arbVars, mainVars, clock, current_emotion, _span_start, _stop_event,
                   s_pc, s_now, s_label, s_duration, last_ts, m_duration,
                   first_ts, start_ts, faulted, restarted, m_exc, stop_ts>>

\* ---- stop() ----
\* if not self._stop_event.is_set(): self._stop_event.set()
Stop86 ==
    /\ m_pc = "idle"
    /\ m_exc' = "none"
    /\ IF _stop_event
       THEN UNCHANGED <<_stop_event, m_pc>>
       ELSE _stop_event' = TRUE /\ m_pc' = "stop_88"
    /\ UNCHANGED <<arbVars, mainVars, clock, _emo_spans, current_emotion, _span_start,
                   _lock, s_pc, s_now, s_label, s_duration, last_ts, m_now, m_duration,
                   returned, first_ts, start_ts, faulted, restarted, stop_ts>>

\* self._thread.join(): returns once the thread has ended; joining a thread
\* that was never started raises RuntimeError
Stop88 ==
    /\ m_pc = "stop_88"
    /\ ~ThreadAlive
    /\ m_exc' = IF s_pc = "unstarted" THEN "RuntimeError" ELSE "none"
    /\ m_pc' = "idle"
    /\ UNCHANGED <<arbVars, mainVars, clock, _emo_spans, current_emotion, _span_start, _stop_event,
                   _lock, s_pc, s_now, s_label, s_duration, last_ts, m_now, m_duration,
                   returned, first_ts, start_ts, faulted, restarted, stop_ts>>

NextDet ==
    \/ Tick
    \/ Start26 \/ Start27 \/ Start28 \/ Start29 \/ Start30
    \/ RunSample \/ RunClassify \/ RunClassifyRaises \/ RunCompare \/ RunDuration
    \/ RunAppend \/ RunSetCurrent \/ RunSetSpanStart
    \/ RunFinalNow \/ RunFinalDuration \/ RunFinalAppend
    \/ Drain75 \/ Drain77 \/ Drain78 \/ Drain79 \/ Drain80 \/ Drain81
    \/ Stop86 \/ Stop88

(***************************************************************************)
(* main.py: the turn orchestrator                                          *)
(*                                                                         *)
(* A tick is STT_POLL_SECS, the time one empty poll takes. The loop reads  *)
(* the clock only as time.time() - transcriber.last_activity, which is the *)
(* variable silence; it is capped at the idle threshold, the only value it *)
(* is compared with. A local variable of the loop is set back to its       *)
(* initial value when the turn ends. The emotion summaries and the log     *)
(* records of a turn change nothing the loop reads.                        *)
(***************************************************************************)
\* IDLE_TIMEOUT = 20 (seconds)
IDLE_TIMEOUT == 20

\* ticks per second: STT_POLL_SECS = 0.5
TicksPerSec == 2

IdleTicks == IDLE_TIMEOUT * TicksPerSec

\* what the user says: something, or a spelling of quit
Utterances == {"hello", "Quit "}

\* user_input.lower().strip()
LowerStrip(u) == IF u = "Quit " THEN "quit" ELSE u

\* the reply of the text generator
Replies == {"reply"}

NoContext == [present |-> FALSE, clueLabel |-> "None", direction |-> "across"]

\* the empty dict (no board connected); also the value of a dead crossword_state
EmptyBoard == [keys |-> {}, across |-> <<>>, down |-> <<>>,
               clue_context |-> [clueLabel |-> "None", direction |-> "across"]]

BoardOpen ==
    MakeState(<< <<"5", <<"P","A","N","A","M","0">> >> >>,
              << <<"1", <<"F","R","0","0","0","0">> >> >>, NoContext)

BoardSolved ==
    MakeState(<< <<"5", <<"P","A","N","A","M","A">> >> >>,
              << <<"1", <<"F","R","0","0","0","0">> >> >>, NoContext)

\* an entry for a clue the table does not have, beside a wrong A5
BoardUnknownOpen ==
    MakeState(<< <<"99", <<"X","0">> >>, <<"5", <<"P","A","N","A","D","A">> >> >>,
              << <<"1", <<"F","R","0","0","0","0">> >> >>, NoContext)

\* the same with the unknown entry fully filled
BoardUnknownFull ==
    MakeState(<< <<"99", <<"X","Y">> >>, <<"5", <<"P","A","N","A","D","A">> >> >>,
              << <<"1", <<"F","R","0","0","0","0">> >> >>, NoContext)

\* a board state without its direction mappings
BoardNoDirections ==
    [keys |-> {"clue_context"}, across |-> <<>>, down |-> <<>>,
     clue_context |-> [clueLabel |-> "None", direction |-> "across"]]

\* what game_state.serialize() can give: the states the board owner publishes,
\* and those of a board that is not connected
MainBoards ==
    {BoardOpen, BoardSolved, BoardUnknownOpen, BoardUnknownFull,
     EmptyBoard, BoardNoDirections}

NoMessage == [kind |-> "none"]

\* "### ROLE\ncrossword puzzle not yet connected."
Placeholder == [kind |-> "placeholder"]

\* mutant: any full pattern counts as solved
NewlyCompletedAnyFull(pat, answer, key, cs) == key \notin cs

\* mutant: the completed_set test is dropped
NewlyCompletedNoSetTest(pat, answer, key, cs) == pat = answer

\* if pat == answer and (dir_letter, num) not in completed_set:
NewlyCompleted(pat, answer, key, cs) == pat = answer /\ key \notin cs

\* the recently_completed loop over crossword_state.get(kdir, {}).items(),
\* from item i on; acc is [set, list]: completed_set and recently_completed
RECURSIVE CompletionDir(_, _, _, _)
CompletionDir(kdir, items, i, acc) ==
    IF i > Len(items) THEN [exc |-> "none", set |-> acc.set, list |-> acc.list]
    ELSE IF items[i][1] = "undefined" \/ items[i][2] = <<>> \/ HasEmpty(items[i][2])
         THEN CompletionDir(kdir, items, i + 1, acc)
    ELSE IF <<DirLetter(kdir), int(items[i][1])>> \notin ClueKeys
         THEN [exc |-> "KeyError", set |-> acc.set, list |-> acc.list]
    ELSE IF NewlyCompleted(items[i][2],
                           _CLUE_LOOKUP(<<DirLetter(kdir), int(items[i][1])>>).answer,
                           <<DirLetter(kdir), int(items[i][1])>>, acc.set)
         THEN CompletionDir(kdir, items, i + 1,
                  [set |-> acc.set \cup {<<DirLetter(kdir), int(items[i][1])>>},
                   list |-> Append(acc.list, <<DirLetter(kdir), int(items[i][1])>>)])
    ELSE CompletionDir(kdir, items, i + 1, acc)

\* crossword_state.get(kdir, {}).items()
ItemsOrNone(st, kdir) == IF kdir \in st.keys THEN Items(st, kdir) ELSE <<>>

CompletionLoop(st, cs) ==
    LET a == CompletionDir("across", ItemsOrNone(st, "across"), 1, [set |-> cs, list |-> <<>>])
    IN  IF a.exc # "none" THEN a
        ELSE CompletionDir("down", ItemsOrNone(st, "down"), 1, [set |-> a.set, list |-> a.list])

\* mutant: no fallback to the placeholder
BuildContextNoFallback(st, idle, recent) ==
    [kind |-> "prompt", body |-> create_system_prompt(st, idle, IDLE_TIMEOUT, recent).val]

\* try: if not crossword_state: raise KeyError; create_system_prompt(...)
\* except KeyError: the placeholder
BuildContext(st, idle, recent) ==
    IF st.keys = {} THEN Placeholder
    ELSE IF create_system_prompt(st, idle, IDLE_TIMEOUT, recent).exc # "none" THEN Placeholder
    ELSE [kind |-> "prompt", body |-> create_system_prompt(st, idle, IDLE_TIMEOUT, recent).val]

InitMain ==
    /\ pc = "top"
    /\ silence \in 0..IdleTicks
    /\ idle_sec = 0
    /\ user_input = "None"
    /\ turn_idx = 0
    /\ history = << [role |-> "assistant", content |-> "intro_text"] >>
    /\ completed_set = {}
    /\ recently_completed = <<>>
    /\ crossword_state = EmptyBoard
    /\ system_msg_text = NoMessage
    /\ transcription_queue = <<>>
    /\ tr_alive = TRUE
    /\ listening = TRUE
    /\ state_ready = FALSE
    /\ requested = FALSE
    /\ game_state \in MainBoards
    /\ stale = FALSE
    /\ exc = "none"
    /\ reported = [k \in ClueKeys |-> 0]
    /\ messages = <<>>
    /\ emo_drains = << <<0, {"intro"}>> >>
    /\ emo_window = {}
    /\ acted_on = 1
    /\ transcriber = 1
    /\ stopped = {}
    /\ spoken_over = 0
    /\ records = << <<"emotion", 0>> >>

\* ---- the collaborators ----
\* the STT thread hears an utterance: it puts it in its queue and notes the
\* time in last_activity ("since last speech")
Utter ==
    /\ pc \notin {"finally", "exited"}
    /\ tr_alive
    /\ Len(transcription_queue) < MaxQueue
    /\ \E u \in Utterances : transcription_queue' = Append(transcription_queue, u)
    /\ silence' = 0
    /\ spoken_over' = IF pc = "resume" THEN spoken_over + 1 ELSE 0
    /\ UNCHANGED <<arbVars, detVars, pc, idle_sec, user_input, turn_idx, history,
                   completed_set, recently_completed, crossword_state, system_msg_text,
                   tr_alive, listening, state_ready, requested, game_state,
                   stale, exc, reported, records, stopped, transcriber, acted_on, emo_window, emo_drains, messages>>

\* the STT thread dies
TranscriberDies ==
    /\ pc \notin {"finally", "exited"}
    /\ tr_alive
    /\ transcriber < MaxInstances
    /\ tr_alive' = FALSE
    /\ UNCHANGED <<arbVars, detVars, pc, silence, idle_sec, user_input, turn_idx, history,
                   completed_set, recently_completed, crossword_state, system_msg_text,
                   transcription_queue, listening, state_ready, requested, game_state,
                   stale, exc, reported, records, spoken_over, stopped, transcriber, acted_on, emo_window, emo_drains, messages>>

\* the board owner answers "request_state": it stores the board as it is now
\* in game_state and sets state_ready
Publish ==
    /\ requested
    /\ game_state' \in MainBoards
    /\ state_ready' = TRUE
    /\ requested' = FALSE
    /\ UNCHANGED <<arbVars, detVars, pc, silence, idle_sec, user_input, turn_idx, history,
                   completed_set, recently_completed, crossword_state, system_msg_text,
                   transcription_queue, tr_alive, listening,
                   stale, exc, reported, records, spoken_over, stopped, transcriber, acted_on, emo_window, emo_drains, messages>>

\* ---- the loop ----
\* mutant: the calls go to the first transcriber, the one tts_manager was given
FirstTranscriber(tr) == 1

\* the object a call "transcriber.f()" acts on: the one the variable is bound to
TargetOf(tr) == tr

\* last_activity of a transcriber just constructed, as silence
NewTranscriberSilence == 0

\* if not transcriber.is_alive(): a new one, started;
\* idle_sec = int(time.time() - transcriber.last_activity)
MainTop ==
    /\ pc = "top"
    /\ turn_idx < MaxTurns
    /\ IF tr_alive
       THEN /\ idle_sec' = silence \div TicksPerSec
            /\ UNCHANGED <<tr_alive, transcription_queue, listening, silence, spoken_over,
                           transcriber>>
       ELSE /\ tr_alive' = TRUE
            /\ transcriber' = transcriber + 1
            /\ transcription_queue' = <<>>
            /\ spoken_over' = 0
            /\ listening' = TRUE
            /\ silence' = NewTranscriberSilence
            /\ idle_sec' = NewTranscriberSilence \div TicksPerSec
    /\ pc' = "poll"
    /\ UNCHANGED <<arbVars, detVars, user_input, turn_idx, history,
                   completed_set, recently_completed, crossword_state, system_msg_text,
                   state_ready, requested, game_state,
                   stale, exc, reported, records, stopped, acted_on, emo_window, emo_drains, messages>>

\* Once a turn has started idle_sec is read by one test only, silence_seconds
\* >= idle_threshold with idle_threshold = IDLE_TIMEOUT (crossword_prompt.py
\* line 189); of a value below IDLE_TIMEOUT the turn keeps only that it is below.
IdleSide(sec) == IF sec >= IDLE_TIMEOUT THEN sec ELSE 0

\* mutant: the turn index is not advanced
NextTurnIdxSame(t) == t

\* turn_idx += 1
NextTurnIdx(t) == t + 1

\* mutant: a drain leaves the open window as it was
WindowAfterDrainKept(w) == w

\* get_summary_and_reset() reopens the span at the time of the call: what it
\* returned covers the time up to the call, the next drain the time after it
WindowAfterDrain(w) == {}

\* lines 162-173: continue on None, break on quit, else the turn starts: the
\* index advances and the emotion summary after the user (the time of the
\* polls since the last drain) is drained and logged under it
AcceptInput(ui) ==
    IF ui = "None"
    THEN pc' = "top" /\ user_input' = "None" /\ idle_sec' = 0
            /\ emo_window' = emo_window \cup {"listen"}
            /\ UNCHANGED <<turn_idx, records, emo_drains>>
    ELSE IF LowerStrip(ui) = "quit"
    THEN pc' = "finally" /\ user_input' = "None" /\ idle_sec' = 0
            /\ emo_window' = emo_window \cup {"listen"}
            /\ UNCHANGED <<turn_idx, records, emo_drains>>
    ELSE pc' = "request" /\ user_input' = ui /\ turn_idx' = NextTurnIdx(turn_idx)
            /\ records' = Append(records, <<"emotion", NextTurnIdx(turn_idx)>>)
            /\ emo_drains' = Append(emo_drains,
                                    <<NextTurnIdx(turn_idx), emo_window \cup {"listen"}>>)
            /\ emo_window' = WindowAfterDrain(emo_window \cup {"listen"})
            /\ idle_sec' = IdleSide(idle_sec)

\* mutant: the sentinel is injected whenever the threshold is reached
AfterIdleCheckAnyInput(ui, sec) == IF sec >= IDLE_TIMEOUT THEN "[[IDLE]]" ELSE ui

\* user_input after "if user_input is None and idle_sec >= IDLE_TIMEOUT:
\* user_input = '[[IDLE]]'"
AfterIdleCheck(ui, sec) == IF ui = "None" /\ sec >= IDLE_TIMEOUT THEN "[[IDLE]]" ELSE ui

\* transcription_queue.get(timeout=STT_POLL_SECS) returns an utterance; the
\* idle test of line 156 finds user_input set
MainPollGet ==
    /\ pc = "poll"
    /\ transcription_queue # <<>>
    /\ transcription_queue' = Tail(transcription_queue)
    /\ spoken_over' = Min(spoken_over, Len(transcription_queue) - 1)
    /\ AcceptInput(AfterIdleCheck(Head(transcription_queue), idle_sec))
    /\ UNCHANGED <<arbVars, detVars, silence, history,
                   completed_set, recently_completed, crossword_state, system_msg_text,
                   tr_alive, listening, state_ready, requested, game_state,
                   stale, exc, reported, stopped, transcriber, acted_on, messages>>

\* mutant: the idle clock is not reset at the injection
SilenceAfterInjectionKept(sil) == sil

\* transcriber.last_activity = time.time() at the injection, as silence
SilenceAfterInjection(sil) == 0

\* the poll times out (queue.Empty) after one tick;
\* if user_input is None and idle_sec >= IDLE_TIMEOUT: inject [[IDLE]]
MainPollEmpty ==
    /\ pc = "poll"
    /\ transcription_queue = <<>>
    /\ IF idle_sec >= IDLE_TIMEOUT
       THEN /\ silence' = SilenceAfterInjection(Min(silence + 1, IdleTicks))
            /\ acted_on' = TargetOf(transcriber)
            /\ AcceptInput("[[IDLE]]")
       ELSE /\ silence' = Min(silence + 1, IdleTicks)
            /\ UNCHANGED acted_on
            /\ AcceptInput("None")
    /\ UNCHANGED <<arbVars, detVars, history,
                   completed_set, recently_completed, crossword_state, system_msg_text,
                   transcription_queue, tr_alive, listening, state_ready,
                   requested, game_state, stale, exc, reported, spoken_over, stopped, transcriber, messages>>

\* state_ready.clear(); socketio.emit("request_state")
MainRequest ==
    /\ pc = "request"
    /\ state_ready' = FALSE
    /\ requested' = TRUE
    /\ pc' = "wait"
    /\ UNCHANGED <<arbVars, detVars, silence, idle_sec, user_input, turn_idx, history,
                   completed_set, recently_completed, crossword_state, system_msg_text,
                   transcription_queue, tr_alive, listening, game_state,
                   stale, exc, reported, records, spoken_over, stopped, transcriber, acted_on, emo_window, emo_drains, messages>>

\* state_ready.wait(timeout=0.4) returns True
MainWaitReady ==
    /\ pc = "wait"
    /\ state_ready
    /\ stale' = FALSE
    /\ pc' = "serialize"
    /\ emo_window' = emo_window \cup {"snapshot"}
    /\ UNCHANGED <<arbVars, detVars, silence, idle_sec, user_input, turn_idx, history,
                   completed_set, recently_completed, crossword_state, system_msg_text,
                   transcription_queue, tr_alive, listening, state_ready,
                   requested, game_state, exc, reported, records, spoken_over, stopped, transcriber, acted_on, emo_drains, messages>>

\* mutant: a timeout drops the turn
AfterTimeoutDropTurn == "top"

\* where the loop goes on after the timeout warning: to game_state.serialize()
AfterTimeout == "serialize"

\* state_ready.wait(timeout=0.4) returns False: the warning is printed
MainWaitTimeout ==
    /\ pc = "wait"
    /\ ~state_ready
    /\ stale' = TRUE
    /\ pc' = AfterTimeout
    /\ emo_window' = emo_window \cup {"snapshot"}
    /\ UNCHANGED <<arbVars, detVars, silence, idle_sec, user_input, turn_idx, history,
                   completed_set, recently_completed, crossword_state, system_msg_text,
                   transcription_queue, tr_alive, listening, state_ready,
                   requested, game_state, exc, reported, records, spoken_over, stopped, transcriber, acted_on, emo_drains, messages>>

\* mutant: the context is popped from the snapshot, not read
SnapshotContextPopped(st) == [st EXCEPT !.keys = @ \ {"clue_context"}]

\* the dict crossword_state after the recently_completed loop and
\* create_system_prompt have run on it: they use .get, .items(), indexing and
\* iteration only, and no statement assigns to it or deletes from it
SnapshotAfterReads(st) == st

\* crossword_state = game_state.serialize(); the recently_completed loop
\* (a KeyError leaves the loop of the program); the system prompt or the
\* placeholder; idle_sec, not read again before line 146 assigns it, is let go
MainSnapshot ==
    /\ pc = "serialize"
    /\ crossword_state' = SnapshotAfterReads(game_state)
    /\ idle_sec' = 0
    /\ emo_window' = emo_window \cup {"snapshot"}
    /\ LET comp == CompletionLoop(game_state, completed_set)
       IN  /\ completed_set' = comp.set
           /\ recently_completed' = comp.list
           /\ reported' = [k \in ClueKeys |->
                             reported[k] + (IF \E j \in 1..Len(comp.list) : comp.list[j] = k
                                            THEN 1 ELSE 0)]
           /\ IF comp.exc # "none"
              THEN /\ exc' = comp.exc
                   /\ pc' = "finally"
                   /\ UNCHANGED system_msg_text
              ELSE /\ system_msg_text' = BuildContext(game_state, idle_sec, comp.list)
                   /\ pc' = "generate"
                   /\ UNCHANGED exc
    /\ UNCHANGED <<arbVars, detVars, silence, user_input, turn_idx, history,
                   transcription_queue, tr_alive, listening, state_ready,
                   requested, game_state, stale, records, spoken_over, stopped, transcriber, acted_on, emo_drains, messages>>

\* mutant: the generator is given the history without its first entry
MessagesTailOnly(sys, hist, ui) ==
    << [role |-> "developer", content |-> sys] >>
        \o Tail(hist)
        \o << [role |-> "user", content |-> ui] >>

\* messages = [developer: system_msg_text] + history + [user: user_input]
Messages(sys, hist, ui) ==
    << [role |-> "developer", content |-> sys] >>
        \o hist
        \o << [role |-> "user", content |-> ui] >>

\* mutant: only the reply is recorded
HistoryExtendReplyOnly(hist, ui, assistant_text) ==
    hist \o << [role |-> "assistant", content |-> assistant_text] >>

\* history.extend([{"role": "user", "content": user_input},
\*                 {"role": "assistant", "content": assistant_text}])
HistoryExtend(hist, ui, assistant_text) ==
    hist \o << [role |-> "user", content |-> ui],
               [role |-> "assistant", content |-> assistant_text] >>

\* client.chat.completions.create(messages=messages) returns;
\* pdata.append_chat_turn(turn_idx, ...); history.extend([user, assistant])
MainGenerate ==
    /\ pc = "generate"
    /\ messages' = Messages(system_msg_text, history, user_input)
    /\ \E assistant_text \in Replies :
          history' = HistoryExtend(history, user_input, assistant_text)
    /\ records' = Append(records, <<"chat", turn_idx>>)
    /\ pc' = "speak"
    /\ emo_window' = emo_window \cup {"generate"}
    /\ UNCHANGED <<arbVars, detVars, silence, idle_sec, user_input, turn_idx,
                   completed_set, recently_completed, crossword_state, system_msg_text,
                   transcription_queue, tr_alive, listening, state_ready,
                   requested, game_state, stale, exc, reported, spoken_over, stopped, transcriber, acted_on, emo_drains>>

\* client.chat.completions.create(...) raises: nothing in the loop catches it
\* (the try has only "except KeyboardInterrupt"), so the finally block runs and
\* the exception ends the process
MainGenerateRaises ==
    /\ pc = "generate"
    /\ messages' = Messages(system_msg_text, history, user_input)
    /\ exc' = "GeneratorError"
    /\ pc' = "finally"
    /\ emo_window' = emo_window \cup {"generate"}
    /\ UNCHANGED <<arbVars, detVars, silence, idle_sec, user_input, turn_idx, history,
                   completed_set, recently_completed, crossword_state, system_msg_text,
                   transcription_queue, tr_alive, listening, state_ready,
                   requested, game_state, stale, reported, records, spoken_over, stopped, transcriber, acted_on, emo_drains>>

\* mutant: the backlog is kept
DrainKeepsBacklog(q) == q

\* _drain_transcription_queue(q): get_nowait() until the queue is empty
_drain_transcription_queue(q) == <<>>

\* transcriber.pause_listening(); speak_text(assistant_text) begins
MainSpeak ==
    /\ pc = "speak"
    /\ listening' = FALSE
    /\ acted_on' = TargetOf(transcriber)
    /\ pc' = "resume"
    /\ emo_window' = emo_window \cup {"speak"}
    /\ UNCHANGED <<arbVars, detVars, silence, idle_sec, user_input, turn_idx, history,
                   completed_set, recently_completed, crossword_state, system_msg_text,
                   transcription_queue, tr_alive, state_ready,
                   requested, game_state, stale, exc, reported, records, spoken_over, stopped, transcriber, emo_drains, messages>>

\* the speech ends; transcriber.resume_listening();
\* emotion_detector.get_summary_and_reset() and
\* pdata.append_emotion_summary(turn_idx, emo_after_robot); then, in the
\* window that drain has opened,
\* _drain_transcription_queue(...); transcriber.last_activity = time.time()
MainResume ==
    /\ pc = "resume"
    /\ listening' = TRUE
    /\ acted_on' = TargetOf(transcriber)
    /\ transcription_queue' = _drain_transcription_queue(transcription_queue)
    /\ spoken_over' = Min(spoken_over, Len(_drain_transcription_queue(transcription_queue)))
    /\ silence' = 0
    /\ pc' = "top"
    /\ idle_sec' = 0
    /\ user_input' = "None"
    /\ recently_completed' = <<>>
    /\ crossword_state' = EmptyBoard
    /\ system_msg_text' = NoMessage
    /\ messages' = <<>>
    /\ stale' = FALSE
    /\ records' = Append(records, <<"emotion", turn_idx>>)
    /\ emo_drains' = Append(emo_drains, <<turn_idx, emo_window>>)
    /\ emo_window' = WindowAfterDrain(emo_window) \cup {"backlog"}
    /\ UNCHANGED <<arbVars, detVars, turn_idx, history, completed_set,
                   tr_alive, state_ready,
                   requested, game_state, exc, reported, stopped, transcriber>>

\* the background producers started in the setup: cam_stream (CameraStream),
\* emotion_detector.start(), audio_stream (AudioStream), transcriber.start()
Producers == {"cam_stream", "emotion_detector", "audio_stream", "transcriber"}

\* what the finally block stops: cam_stream.stop(); audio_stream.stop()
StoppedInFinally == {"cam_stream", "audio_stream"}

\* finally: cam_stream.stop(); audio_stream.stop(); close_robot(); the process
\* ends, and with it the loop's locals, the STT queue and the idle clock
MainFinally ==
    /\ pc = "finally"
    /\ pc' = "exited"
    /\ stopped' = stopped \cup StoppedInFinally
    /\ silence' = 0
    /\ idle_sec' = 0
    /\ user_input' = "None"
    /\ recently_completed' = <<>>
    /\ crossword_state' = EmptyBoard
    /\ system_msg_text' = NoMessage
    /\ transcription_queue' = <<>>
    /\ spoken_over' = 0
    /\ stale' = FALSE
    /\ emo_window' = {}
    /\ messages' = <<>>
    /\ UNCHANGED <<arbVars, detVars, turn_idx, history, completed_set,
                   tr_alive, listening, state_ready,
                   requested, game_state, exc, reported, records, transcriber, acted_on, emo_drains>>

NextMain ==
    \/ Utter \/ TranscriberDies \/ Publish
    \/ MainTop \/ MainPollGet \/ MainPollEmpty
    \/ MainRequest \/ MainWaitReady \/ MainWaitTimeout
    \/ MainSnapshot \/ MainGenerate \/ MainGenerateRaises
    \/ MainSpeak \/ MainResume \/ MainFinally

(***************************************************************************)
(* SpecArb, continued: the rest-of-board summary, the newly-completed loop *)
(* and the context of a turn, applied to every snapshot                    *)
(***************************************************************************)
\* the exclusion sets given to _snapshot: none, or one clue of the table
\* (create_system_prompt gives the focal clue)
ExclusionSets == {{}} \cup {{k} : k \in ClueKeys}

\* _snapshot(state, excl) and _summarise_rest(state, excl)
CallSnapshot ==
    /\ fn = "none"
    /\ fn' = "_snapshot"
    /\ \E excl \in ExclusionSets :
          ret' = [excl |-> excl, out |-> _snapshot(state, excl),
                  emotion |-> _summarise_rest(state, excl)]
    /\ UNCHANGED <<state, detVars, mainVars>>

\* the values completed_set has when the loop runs: empty, or A5 reported before
CompletedSets == {{}, {<<"A", 5>>}}

\* the recently_completed loop of main.py on the snapshot
CallCompletionLoop ==
    /\ fn = "none"
    /\ fn' = "completion"
    /\ \E cs \in CompletedSets :
          ret' = [before |-> cs, out |-> CompletionLoop(state, cs)]
    /\ UNCHANGED <<state, detVars, mainVars>>

\* the context main.py builds from the snapshot (lines 194-208), silent for
\* less than the threshold or for the threshold
CallBuildContext ==
    /\ fn = "none"
    /\ fn' = "create_system_prompt"
    /\ \E sec \in {0, IDLE_TIMEOUT} :
          ret' = [silence_seconds |-> sec,
                  focal |-> _choose_focal(state),
                  emotion |-> _choose_focal_emotion(state),
                  out |-> create_system_prompt(state, sec, IDLE_TIMEOUT, <<>>),
                  context |-> BuildContext(state, sec, <<>>)]
    /\ UNCHANGED <<state, detVars, mainVars>>

NextArb ==
    \/ CallFindErrors \/ CallChooseFocal \/ CallInteresting
    \/ CallSnapshot \/ CallCompletionLoop \/ CallBuildContext

(***************************************************************************)
(* Specifications                                                          *)
(***************************************************************************)
\* the arbitration functions applied to every snapshot
\* the orchestrator's variables where the loop is not run
MainIdle ==
    /\ pc = "top" /\ silence = 0 /\ idle_sec = 0 /\ user_input = "None" /\ turn_idx = 0
    /\ history = <<>> /\ completed_set = {} /\ recently_completed = <<>>
    /\ crossword_state = EmptyBoard /\ system_msg_text = NoMessage
    /\ transcription_queue = <<>> /\ tr_alive = TRUE /\ listening = TRUE
    /\ state_ready = FALSE /\ requested = FALSE /\ game_state = EmptyBoard
    /\ stale = FALSE /\ exc = "none" /\ reported = [k \in ClueKeys |-> 0]
    /\ records = <<>>
    /\ spoken_over = 0
    /\ stopped = {}
    /\ transcriber = 1
    /\ acted_on = 1
    /\ emo_window = {}
    /\ emo_drains = <<>>
    /\ messages = <<>>

InitSpecArb == InitArb /\ InitDet /\ MainIdle

SpecArb == InitSpecArb /\ [][NextArb]_vars

\* the detector: its sampler thread against one calling thread
ArbIdle == state = MakeState(<<>>, <<>>, [present |-> FALSE, clueLabel |-> "None", direction |-> "across"])
             /\ fn = "none" /\ ret = Ok(<<>>)

InitSpecDet == ArbIdle /\ InitDet /\ MainIdle

SpecDet == InitSpecDet /\ [][NextDet]_vars

\* the orchestrator's loop against its collaborators
InitSpecMain == ArbIdle /\ InitDet /\ InitMain

SpecMain == InitSpecMain /\ [][NextMain]_vars

(***************************************************************************)
(* Claims about the arbitration functions (checked under SpecArb)          *)
(***************************************************************************)
Dirs == {"across", "down"}

\* the snapshot lists an entry whose (direction, number) is not in the clue table
HasUnknownEntry(st) ==
    \E kdir \in Dirs : \E i \in 1..Len(Items(st, kdir)) :
        /\ Items(st, kdir)[i][1] # "undefined"
        /\ <<DirLetter(kdir), int(Items(st, kdir)[i][1])>> \notin ClueKeys

\* the snapshot's context names no focal clue
NoOverride(st) == "clue_context" \notin st.keys \/ st.clue_context.clueLabel = "None"

\* some typed character is non-empty and differs from the answer's character
\* at the same position
TypedWrong(pat, ans) ==
    \E i \in 1..Len(pat) : i <= Len(ans) /\ pat[i] # "0" /\ pat[i] # ans[i]

\* the clues of the table with such an entry in the snapshot
ErroneousClues(st) ==
    { k \in ClueKeys :
        \E kdir \in Dirs : \E i \in 1..Len(Items(st, kdir)) :
            /\ DirLetter(kdir) = k[1]
            /\ Items(st, kdir)[i][1] # "undefined"
            /\ int(Items(st, kdir)[i][1]) = k[2]
            /\ TypedWrong(Items(st, kdir)[i][2], _CLUE_LOOKUP(k).answer) }

OneEntryPerErroneousClue(msgs, st) ==
    /\ \A k \in ErroneousClues(st) :
          Cardinality({j \in 1..Len(msgs) : <<msgs[j].dir, msgs[j].num>> = k}) = 1
    /\ \A j \in 1..Len(msgs) : <<msgs[j].dir, msgs[j].num>> \in ErroneousClues(st)

\* C3: the error list _find_errors produces holds exactly one entry for each
\* clue with a typed, non-empty character that differs from the answer at its
\* position, and no other entry (so none for an all-empty pattern). Both
\* variants; crossword_prompt.py's produces a list for every snapshot whose
\* entries are all in the clue table.
C3_ErrorListExact ==
    fn = "_find_errors" =>
        /\ ret.emotion.exc = "none" => OneEntryPerErroneousClue(ret.emotion.val, state)
        /\ ret.prompt.exc = "none" => OneEntryPerErroneousClue(ret.prompt.val, state)
        /\ ret.prompt.exc # "none" => HasUnknownEntry(state)
        /\ ret.emotion.exc = "none"

\* A5 'PANADA' is reported and A2 'AUSTR00' (no wrong letter) is not
C3_Witness ==
    /\ fn = "_find_errors"
    /\ state.across = << <<"5", <<"P","A","N","A","D","A">> >>,
                         <<"2", <<"A","U","S","T","R","0","0">> >> >>
    /\ ret.prompt.exc = "none"
    /\ Len(ret.prompt.val) = 1
    /\ ret.prompt.val[1].num = 5
    /\ Len(ret.emotion.val) = 1

\* the numbers of the direction's entries that have an empty cell
OpenNumbers(st, kdir) ==
    { int(Items(st, kdir)[i][1]) :
        i \in { j \in 1..Len(Items(st, kdir)) :
                  /\ Items(st, kdir)[j][1] # "undefined"
                  /\ HasEmpty(Items(st, kdir)[j][2]) } }

Lowest(S) == CHOOSE n \in S : \A m \in S : n <= m

\* C9: without an override _choose_focal returns the first clue with an empty
\* cell scanning across then down in ascending clue-number order, whatever the
\* order in which the snapshot lists its clue numbers.
C9_FocalAscending ==
    (fn = "_choose_focal" /\ NoOverride(state) /\ ret.exc = "none") =>
        /\ OpenNumbers(state, "across") # {} =>
              ret.val = <<"A", Lowest(OpenNumbers(state, "across"))>>
        /\ (OpenNumbers(state, "across") = {} /\ OpenNumbers(state, "down") # {}) =>
              ret.val = <<"D", Lowest(OpenNumbers(state, "down"))>>

\* the clues _interesting may return: in the snapshot with an empty cell, not excl
Candidates(st, excl) ==
    { k \in ClueKeys \ {excl} :
        \E kdir \in Dirs : \E i \in 1..Len(Items(st, kdir)) :
            /\ DirLetter(kdir) = k[1]
            /\ Items(st, kdir)[i][1] # "undefined"
            /\ int(Items(st, kdir)[i][1]) = k[2]
            /\ HasEmpty(Items(st, kdir)[i][2]) }

\* the filled letters of the snapshot's entry for clue k
FilledOf(st, k) ==
    LET kdir == IF k[1] = "A" THEN "across" ELSE "down"
        i == CHOOSE j \in 1..Len(Items(st, kdir)) :
                 Items(st, kdir)[j][1] # "undefined" /\ int(Items(st, kdir)[j][1]) = k[2]
    IN  Cardinality({c \in 1..Len(Items(st, kdir)[i][2]) : Items(st, kdir)[i][2][c] # "0"})

PickKey(m) == <<m.dir, m.num>>

\* C10: _interesting returns at most k clues, none the focal one, each with an
\* empty cell, by descending count of filled letters with ties in clue-table
\* order, and no candidate left out has more filled letters than one returned.
C10_InterestRanking ==
    fn = "_interesting" =>
        /\ ret.out.exc # "none" => HasUnknownEntry(state)
        /\ ret.out.exc = "none" =>
              LET out == ret.out.val
                  keys == {PickKey(out[j]) : j \in 1..Len(out)}
              IN  /\ Len(out) <= ret.k
                  /\ keys \subseteq Candidates(state, ret.excl)
                  /\ \A j \in 1..Len(out) : \E c \in 1..Len(out[j].typed) : out[j].typed[c] = "_"
                  /\ \A i, j \in 1..Len(out) : i < j =>
                        \/ FilledOf(state, PickKey(out[i])) > FilledOf(state, PickKey(out[j]))
                        \/ /\ FilledOf(state, PickKey(out[i])) = FilledOf(state, PickKey(out[j]))
                           /\ TableIndex(PickKey(out[i])) < TableIndex(PickKey(out[j]))
                  /\ \A c \in Candidates(state, ret.excl) \ keys : \A o \in keys :
                        FilledOf(state, c) <= FilledOf(state, o)

\* focal A2 (5 of 7 filled) is excluded; of A5, D1 and D3 the two returned are
\* A5 (5 filled) and D1 (2 filled, before D3 with 2 filled)
C10_Witness ==
    /\ fn = "_interesting"
    /\ ret.excl = <<"A", 2>>
    /\ state.across = << <<"2", <<"A","U","S","T","R","0","0">> >>,
                         <<"5", <<"P","A","N","A","M","0">> >> >>
    /\ state.down = << <<"3", <<"S","P","0","0","0">> >>,
                       <<"1", <<"F","R","0","0","0","0">> >> >>
    /\ ret.out.exc = "none"
    /\ Len(ret.out.val) = 2
    /\ PickKey(ret.out.val[1]) = <<"A", 5>>
    /\ PickKey(ret.out.val[2]) = <<"D", 1>>

\* the parts of an error message that are text typed or stored for the clue
TextParts(m) == DOMAIN m \ {"dir", "num", "hint"}

\* the message carries its clue's hint and the typed pattern with every empty
\* cell shown as "_", and no part of it is the clue's answer
MessageHidesAnswer(m) ==
    LET clue == _CLUE_LOOKUP(<<m.dir, m.num>>)
    IN  /\ m.hint = clue.hint
        /\ "typed" \in DOMAIN m
        /\ \A i \in 1..Len(m.typed) : m.typed[i] # "0"
        /\ \A f \in TextParts(m) : m[f] # clue.answer

\* C18: every message of the error list, in both variants of _find_errors,
\* carries the hint and the rendered pattern (never a raw "0") and never the
\* clue's answer.
C18_ErrorMessagesHideAnswer ==
    fn = "_find_errors" =>
        /\ ret.emotion.exc = "none" =>
              \A i \in 1..Len(ret.emotion.val) : MessageHidesAnswer(ret.emotion.val[i])
        /\ ret.prompt.exc = "none" =>
              \A i \in 1..Len(ret.prompt.val) : MessageHidesAnswer(ret.prompt.val[i])

\* the snapshot's entry for clue k of the table (its pattern), if it has one
EntriesOf(st, k) ==
    LET items == Items(st, IF k[1] = "A" THEN "across" ELSE "down")
    IN  { items[i][2] :
            i \in { j \in 1..Len(items) :
                      items[j][1] # "undefined" /\ int(items[j][1]) = k[2] } }

\* the clues whose pattern in the snapshot is shorter than the answer
ShortKeys(st) ==
    { k \in ClueKeys : \E pat \in EntriesOf(st, k) : Len(pat) < Len(_CLUE_LOOKUP(k).answer) }

\* the clues whose pattern, padded at the tail with empty cells to the length
\* of the answer, has an empty cell
PaddedOpenKeys(st) ==
    { k \in ClueKeys :
        \E pat \in EntriesOf(st, k) : HasEmpty(ljust(pat, Len(_CLUE_LOOKUP(k).answer))) }

\* the clues a rest-of-board summary lists
ListedKeys(rows) ==
    UNION { { <<rows[r].dir, rows[r].cells[c].num>> : c \in 1..Len(rows[r].cells) } :
              r \in 1..Len(rows) }

\* C22: in every arbitration step a clue whose pattern is shorter than its
\* answer counts as having an empty cell: when there is one (and no override)
\* the focal clue is a clue with an empty cell, padded ones included; the
\* interest ranking leaves none of them out while it has room; the
\* rest-of-board summary lists every one of them that is not excluded; and the
\* newly-completed loop reports none of them.
C22_ShortPatternCountsAsOpen ==
    /\ (fn = "_choose_focal" /\ NoOverride(state) /\ ~HasUnknownEntry(state)
          /\ ret.exc = "none" /\ PaddedOpenKeys(state) # {})
          => ret.val \in PaddedOpenKeys(state)
    /\ (fn = "_interesting" /\ ret.out.exc = "none" /\ Len(ret.out.val) < ret.k)
          => PaddedOpenKeys(state) \ {ret.excl}
                \subseteq {PickKey(ret.out.val[j]) : j \in 1..Len(ret.out.val)}
    /\ (fn = "_snapshot" /\ ret.out.exc = "none")
          => PaddedOpenKeys(state) \ ret.excl
                \subseteq ListedKeys(ret.out.val.rows)
    /\ (fn = "completion")
          => \A j \in 1..Len(ret.out.list) : ret.out.list[j] \notin ShortKeys(state)

\* the clue the snapshot's context names
OverrideKey(st) ==
    <<DirLetter(st.clue_context.direction), int(st.clue_context.clueLabel)>>

\* C24: with an override in the snapshot's context both variants of
\* _choose_focal return exactly the clue it names, whatever the patterns are,
\* and (every entry of the snapshot being in the clue table) the context of
\* the turn is the full prompt built around that clue, not the placeholder.
C24_OverrideVerbatim ==
    (fn = "create_system_prompt" /\ ~NoOverride(state))
       => /\ ret.focal = Ok(OverrideKey(state))
          /\ ret.emotion = Ok(OverrideKey(state))
          /\ ~HasUnknownEntry(state)
                => /\ ret.context.kind = "prompt"
                   /\ ret.context.body.focal = OverrideKey(state)

\* the first clue of the table
FirstClue == <<DirLetter(CROSSWORD_CLUES[1].direction), CROSSWORD_CLUES[1].number>>

\* no entry of the snapshot has an empty cell
NothingOpen(st) == OpenNumbers(st, "across") = {} /\ OpenNumbers(st, "down") = {}

\* C25: without an override, when no entry of the snapshot has an empty cell,
\* _choose_focal returns the first clue of the table, and (every entry of the
\* snapshot being in the clue table) create_system_prompt returns the prompt
\* built around that clue for every such snapshot, one without an entry for
\* the first clue included.
C25_FallbackFirstClue ==
    (fn = "create_system_prompt" /\ NoOverride(state) /\ NothingOpen(state))
       => /\ ret.focal = Ok(FirstClue)
          /\ ~HasUnknownEntry(state)
                => /\ ret.out.exc = "none"
                   /\ ret.context.kind = "prompt"
                   /\ ret.context.body.focal = FirstClue

\* the places in the direction's listing of the entries that are labelled
\* with a clue number, are not excluded and hold an empty cell
RemainingAt(st, kdir, excl) ==
    { i \in 1..Len(Items(st, kdir)) :
        /\ Items(st, kdir)[i][1] # "undefined"
        /\ <<DirLetter(kdir), int(Items(st, kdir)[i][1])>> \notin excl
        /\ \E c \in 1..Len(Items(st, kdir)[i][2]) : Items(st, kdir)[i][2][c] = "0" }

\* the cell is '<number>:<pattern>' of the entry, empty cells shown as "_"
RendersEntry(cell, entry) ==
    /\ cell.num = int(entry[1])
    /\ Len(cell.typed) = Len(entry[2])
    /\ \A c \in 1..Len(entry[2]) :
          cell.typed[c] = IF entry[2][c] = "0" THEN "_" ELSE entry[2][c]

\* the summary has one row per direction that has something left, across
\* before down, and the row of a direction renders exactly its remaining
\* entries, one cell each; it is the sentinel exactly when there is no row
RestOfBoardExact(val, st, excl) ==
    /\ \A r \in 1..Len(val.rows) : val.rows[r].dir \in {"A", "D"}
    /\ \A r, q \in 1..Len(val.rows) : r < q => (val.rows[r].dir = "A" /\ val.rows[q].dir = "D")
    /\ \A kdir \in Dirs :
          /\ (\E r \in 1..Len(val.rows) : val.rows[r].dir = DirLetter(kdir))
                <=> RemainingAt(st, kdir, excl) # {}
          /\ \A r \in 1..Len(val.rows) : val.rows[r].dir = DirLetter(kdir) =>
                /\ Len(val.rows[r].cells) = Cardinality(RemainingAt(st, kdir, excl))
                /\ \A i \in RemainingAt(st, kdir, excl) :
                      \E c \in 1..Len(val.rows[r].cells) :
                          RendersEntry(val.rows[r].cells[c], Items(st, kdir)[i])
    /\ val.all_filled <=> (\A kdir \in Dirs : RemainingAt(st, kdir, excl) = {})

\* C28: the rest-of-board summary (_snapshot, and _summarise_rest of the
\* emotion variant) lists exactly the entries that are not excluded and hold
\* an empty cell, each as its number with its pattern rendered with "_",
\* grouped by direction, across before down, without a row for a direction
\* that has nothing left; it is the fully-solved sentinel if and only if no
\* such entry remains.
C28_RestOfBoardSummary ==
    fn = "_snapshot" =>
        /\ ret.out.exc = "none" /\ ret.emotion.exc = "none"
        /\ RestOfBoardExact(ret.out.val, state, ret.excl)
        /\ RestOfBoardExact(ret.emotion.val, state, ret.excl)

\* A2 is excluded, A5 and D3 are listed, the full D1 is not
C28_Witness ==
    /\ fn = "_snapshot"
    /\ ret.excl = {<<"A", 2>>}
    /\ state.across = << <<"2", <<"A","U","S","T","R","0","0">> >>,
                         <<"5", <<"P","A","N","A","M","0">> >> >>
    /\ state.down = << <<"1", <<"F","R","A","N","C","E">> >>,
                       <<"3", <<"S","P","0","0","0">> >> >>
    /\ ret.out.val.rows =
          << [dir |-> "A", cells |-> << [num |-> 5, typed |-> <<"P","A","N","A","M","_">>] >>],
             [dir |-> "D", cells |-> << [num |-> 3, typed |-> <<"S","P","_","_","_">>] >>] >>
    /\ ~ret.out.val.all_filled
    /\ ret.emotion = ret.out

(***************************************************************************)
(* Claims about the emotion span aggregator (checked under SpecDet)        *)
(***************************************************************************)
\* C1: get_summary_and_reset is safe against the sampler: under every
\* interleaving the spans closed so far (returned by drains or still buffered)
\* cover the time from the first observed label to the open span's start (no
\* interval left out) and no more than the time since start() (no interval
\* counted twice). Stated whenever neither thread is in the middle of an
\* update, in a run that start() has not reset.
C1_DrainConservesTime ==
    (/\ ~restarted
     /\ s_pc = "loop"
     /\ m_pc = "idle"
     /\ current_emotion # "None"
     /\ first_ts # -1)
    => /\ returned + SumDur(_emo_spans) >= _span_start - first_ts
       /\ returned + SumDur(_emo_spans) <= _span_start - start_ts

\* C8: a classifier fault is not propagated: the sampler thread is never ended
\* by it (the sample counts as 'unknown' and sampling goes on).
C8_FaultNotPropagated == faulted => s_pc # "crashed"


(***************************************************************************)
(* Claims about the orchestrator (SpecMain)                                *)
(***************************************************************************)
\* no snapshot is available: the board state is empty or has no direction mapping
MissingBoard(st) == st.keys = {} \/ st.keys \cap Dirs = {}

\* C2: a clue key is reported as newly completed in at most one turn of the
\* session, whether its pattern stays equal to the answer in later snapshots or
\* is erased and solved again; a turn reports a key only if the key was not in
\* completed_set before it and is in it after; completed_set only grows.
C2_ReportedAtMostOnce ==
    [][ /\ completed_set \subseteq completed_set'
        /\ \A k \in ClueKeys :
              /\ reported'[k] <= 1
              /\ reported'[k] > reported[k] => (k \notin completed_set /\ k \in completed_set')
      ]_vars

\* a later turn reads the board with A5 still solved and reports nothing
C2_Witness ==
    /\ pc = "generate"
    /\ turn_idx >= 2
    /\ crossword_state = BoardSolved
    /\ reported[<<"A", 5>>] = 1
    /\ recently_completed = <<>>

\* the poll step that produces the synthetic utterance
Injection == pc = "poll" /\ pc' = "request" /\ user_input' = "[[IDLE]]"

\* C4: [[IDLE]] is produced exactly by a poll that times out when the idle
\* time read in this iteration is at least IDLE_TIMEOUT; there has then been
\* no utterance for IDLE_TIMEOUT seconds, and the same step sets the idle
\* clock to zero, so that another IDLE_TIMEOUT has to pass before the next one.
C4_IdleInjection ==
    [][ /\ Injection => /\ transcription_queue = <<>>
                        /\ idle_sec >= IDLE_TIMEOUT
                        /\ silence >= IdleTicks
                        /\ silence' = 0
        /\ (pc = "poll" /\ pc' # "poll" /\ transcription_queue = <<>>
              /\ idle_sec >= IDLE_TIMEOUT) => Injection
        /\ (pc = "top" /\ pc' = "poll") => idle_sec' * TicksPerSec <= silence'
      ]_vars

\* an idle turn has started and the idle clock is at zero
C4_Witness ==
    /\ pc = "request"
    /\ user_input = "[[IDLE]]"
    /\ silence = 0
    /\ idle_sec >= IDLE_TIMEOUT

\* C5: after the text generator has raised, the loop is not left and the
\* process does not exit.
C5_GeneratorFailureSurvived ==
    exc = "GeneratorError" => pc \notin {"finally", "exited"}

\* C6: a wait that times out prints the stale warning and goes on to
\* game_state.serialize(); the turn then uses game_state as the owner last
\* published it and, every entry of it being in the clue table, goes on to the
\* text generator with the turn still marked stale.
C6_TimeoutIsSoft ==
    [][ /\ (pc = "wait" /\ pc' # "wait" /\ ~state_ready)
              => (stale' /\ pc' = "serialize" /\ game_state' = game_state)
        /\ (pc = "serialize" /\ pc' # "serialize" /\ stale)
              => /\ crossword_state' = game_state
                 /\ stale'
                 /\ ~HasUnknownEntry(game_state) => pc' = "generate"
                 /\ ~(HasUnknownEntry(game_state) \/ MissingBoard(game_state))
                       => system_msg_text'.kind = "prompt"
      ]_vars

\* a stale turn has reached the text generator with the board of the last publish
C6_Witness ==
    /\ pc = "generate"
    /\ stale
    /\ requested
    /\ crossword_state = game_state
    /\ system_msg_text.kind = "prompt"

\* C7: a snapshot entry for a clue the table does not have neither ends the
\* process with a KeyError nor puts the placeholder in the place of the context.
C7_UnknownEntrySkipped ==
    /\ exc # "KeyError"
    /\ (pc \in {"generate", "speak", "resume"} /\ HasUnknownEntry(crossword_state))
          => system_msg_text.kind = "prompt"

\* the records of a turn, in the order the claim gives them
TurnRecordKinds == <<"emotion", "chat", "emotion">>

\* the record at place i of a log in which the intro summary (index 0) is
\* followed by the records of turn 1, then those of turn 2, and so on
RecordInPlace(i) ==
    IF i = 1 THEN <<"emotion", 0>>
    ELSE <<TurnRecordKinds[((i - 2) % 3) + 1], ((i - 2) \div 3) + 1>>

\* C11: turn_idx starts at 0 and never decreases; it advances, by exactly one,
\* in exactly the poll steps that accept an utterance (real or [[IDLE]]) and
\* these go on to the snapshot request; an empty poll and a quit leave it
\* alone. Every log record is written under the index of the turn in progress,
\* so the log is the intro summary followed, turn by turn with the index
\* rising by one, by the turn's emotion summary after the user, its chat
\* record and its emotion summary after the robot.
C11_TurnIndex ==
    [][ /\ turn_idx >= 0
        /\ turn_idx' \in {turn_idx, turn_idx + 1}
        /\ (turn_idx' = turn_idx + 1)
              <=> (pc = "poll" /\ pc' = "request" /\ user_input' # "None")
        /\ (pc = "poll" /\ pc' \in {"top", "finally"}) => turn_idx' = turn_idx
        /\ \A i \in 1..Len(records') :
              /\ i > Len(records) => records'[i][2] = turn_idx'
              /\ records'[i] = RecordInPlace(i)
        /\ turn_idx' >= 1 => records'[Len(records')][2] = turn_idx'
      ]_vars

\* the third turn is complete in the log, after an idle turn and a spoken one
C11_Witness ==
    /\ turn_idx = 3
    /\ pc = "top"
    /\ Len(records) = 10
    /\ records[8] = <<"emotion", 3>> /\ records[9] = <<"chat", 3>>
    /\ records[10] = <<"emotion", 3>>
    /\ \E i, j \in 1..Len(history) :
          history[i].content = "[[IDLE]]" /\ history[j].content = "hello"

\* C14: the transcriber is paused when the rendering of the reply begins and
\* stays paused while it lasts; the step that ends the speaking phase resumes
\* it, empties the transcription queue and sets the idle clock to zero, and
\* leads back to the top of the loop; every poll is made with listening
\* resumed; and no entry put in the queue while the robot spoke is in it
\* outside the speaking phase, so none is ever taken as a turn.
C14_SpeakingPhase ==
    [][ /\ pc' = "resume" => ~listening'
        /\ (pc = "resume" /\ pc' # "resume")
              => (pc' = "top" /\ listening' /\ transcription_queue' = <<>> /\ silence' = 0)
        /\ pc' = "poll" => listening'
        /\ pc' # "resume" => spoken_over' = 0
        /\ (pc = "poll" /\ pc' = "request" /\ user_input' # "[[IDLE]]")
              => spoken_over < Len(transcription_queue)
      ]_vars

\* the robot is speaking, paused, with an utterance put in the queue meanwhile
C14_Witness ==
    /\ pc = "resume"
    /\ ~listening
    /\ spoken_over = 1
    /\ transcription_queue # <<>>

\* C15: once the process has left the loop and run its teardown, every
\* background producer the setup started is stopped; and a quit has started
\* no turn on the way (no record, no snapshot request, no context, no speech).
C15_TeardownStopsProducers ==
    /\ pc = "exited" => stopped = Producers
    /\ (pc = "finally" /\ exc = "none")
          => (system_msg_text = NoMessage /\ listening /\ Len(records) = 1 + 3 * turn_idx)

\* C16: a turn whose board state is empty or without its direction mappings
\* does not raise: its context is the fixed placeholder, it goes on to the text
\* generator and, the generator having answered, through the speech back to
\* the top of the loop.
C16_MissingBoardPlaceholder ==
    [][ /\ (pc = "serialize" /\ pc' # "serialize" /\ MissingBoard(game_state))
              => (pc' = "generate" /\ system_msg_text' = Placeholder /\ exc' = "none")
        /\ (pc = "generate" /\ pc' # "generate" /\ MissingBoard(crossword_state)
              /\ exc' = "none") => (pc' = "speak" /\ system_msg_text' = Placeholder)
        /\ (pc = "speak" /\ pc' # "speak" /\ MissingBoard(crossword_state))
              => pc' = "resume"
        /\ (pc = "resume" /\ pc' # "resume" /\ MissingBoard(crossword_state))
              => (pc' = "top" /\ exc' = "none")
      ]_vars

\* the reply to a turn without a board is being spoken
C16_Witness ==
    /\ pc = "resume"
    /\ crossword_state = EmptyBoard
    /\ system_msg_text = Placeholder
    /\ exc = "none"

\* C17: an iteration that finds the transcriber dead binds the variable to a
\* new, live instance before it polls, and leaves turn_idx, history and
\* completed_set as they were; an iteration that finds it alive keeps it; and
\* every pause, resume, drain and idle-clock reset acts on the instance the
\* variable is bound to, whose queue the loop polls.
C17_TranscriberRestart ==
    [][ /\ (pc = "top" /\ pc' = "poll" /\ ~tr_alive)
              => /\ tr_alive' /\ transcriber' = transcriber + 1
                 /\ turn_idx' = turn_idx /\ history' = history
                 /\ completed_set' = completed_set
        /\ (pc = "top" /\ pc' = "poll" /\ tr_alive) => transcriber' = transcriber
        /\ pc # "top" => transcriber' = transcriber
        /\ (Injection \/ (pc \in {"speak", "resume"} /\ pc' # pc))
              => acted_on' = transcriber'
      ]_vars

\* after a turn, the replacement is the one paused for the speech of the next
C17_Witness ==
    /\ transcriber = 2
    /\ acted_on = 2
    /\ pc = "resume"
    /\ ~listening
    /\ turn_idx = 2
    /\ Len(history) = 5

\* the keys of the clue table whose entry in the snapshot has no empty cell
\* and is exactly the stored answer
SolvedKeys(st) ==
    { k \in ClueKeys :
        \E kdir \in Dirs \cap st.keys : \E i \in 1..Len(Items(st, kdir)) :
            /\ Items(st, kdir)[i][1] # "undefined"
            /\ <<DirLetter(kdir), int(Items(st, kdir)[i][1])>> = k
            /\ Items(st, kdir)[i][2] # <<>>
            /\ ~HasEmpty(Items(st, kdir)[i][2])
            /\ Items(st, kdir)[i][2] = _CLUE_LOOKUP(k).answer }

\* the keys a sequence of keys lists
KeysIn(list) == { list[i] : i \in 1..Len(list) }

\* C19: the turn's snapshot step (when it does not end the process) reports
\* exactly the keys that are solved in the snapshot and were not in
\* completed_set before it, each once, and adds exactly those to completed_set.
C19_NewlyCompletedExact ==
    [][ (pc = "serialize" /\ pc' = "generate")
           => /\ KeysIn(recently_completed') = SolvedKeys(game_state) \ completed_set
              /\ Cardinality(KeysIn(recently_completed')) = Len(recently_completed')
              /\ completed_set' = completed_set \cup KeysIn(recently_completed')
      ]_vars

\* a turn has just reported A5, solved on its board, and put it in completed_set
C19_Witness ==
    /\ pc = "generate"
    /\ crossword_state = BoardSolved
    /\ recently_completed = << <<"A", 5>> >>
    /\ completed_set = {<<"A", 5>>}

\* the drain of the turn's first half and that of its second half
DrainAfterUser == pc = "poll" /\ pc' = "request"

DrainAfterRobot == pc = "resume" /\ pc' = "top"

GeneratorAnswers == pc = "generate" /\ pc' = "speak"

\* C26: history is append-only: every step keeps the entries it had, in
\* place; only the step in which the generator answers adds to it, and it adds
\* the turn's utterance (real or [[IDLE]]) as a user entry followed by the
\* reply as an assistant entry; the generator was given the system context,
\* then the whole history as it was before the turn, then the utterance.
C26_HistoryAppendOnly ==
    [][ /\ Len(history') >= Len(history)
        /\ SubSeq(history', 1, Len(history)) = history
        /\ ~GeneratorAnswers => history' = history
        /\ GeneratorAnswers
              => /\ Len(history') = Len(history) + 2
                 /\ history'[Len(history) + 1] = [role |-> "user", content |-> user_input]
                 /\ history'[Len(history) + 2].role = "assistant"
                 /\ Len(messages') = Len(history) + 2
                 /\ messages'[1] = [role |-> "developer", content |-> system_msg_text]
                 /\ SubSeq(messages', 2, Len(history) + 1) = history
                 /\ messages'[Len(messages')] = [role |-> "user", content |-> user_input]
      ]_vars

\* the generator has answered the second turn, an idle one after a spoken one:
\* it was given the intro and the first exchange, and the history has both
C26_Witness ==
    /\ pc = "speak"
    /\ turn_idx = 2
    /\ Len(messages) = 5
    /\ messages[2].content = "intro_text"
    /\ messages[3] = [role |-> "user", content |-> "hello"]
    /\ messages[5] = [role |-> "user", content |-> "[[IDLE]]"]
    /\ Len(history) = 5
    /\ history[1].content = "intro_text"
    /\ history[2] = [role |-> "user", content |-> "hello"]
    /\ history[4] = [role |-> "user", content |-> "[[IDLE]]"]
    /\ history[5].role = "assistant"

TurnStepBeforeSpeechEnds ==
    pc \in {"request", "wait", "serialize", "generate", "speak"} /\ pc' # pc

\* C30: [[IDLE]] is produced only by a poll that returned nothing. A poll that
\* returns an utterance never produces it, whatever the idle time read in the
\* iteration: the utterance itself becomes the turn (or ends the loop, if it
\* is a quit), and neither that step nor any later step of the loop in the
\* turn touches the idle clock until the step that ends the speaking phase,
\* which sets it to zero.
C30_UtteranceBeforeIdle ==
    [][ /\ Injection => transcription_queue = <<>>
        /\ (pc = "poll" /\ pc' # "poll" /\ transcription_queue # <<>>)
              => /\ user_input' # "[[IDLE]]"
                 /\ pc' \in {"request", "finally"}
                 /\ pc' = "request" => user_input' = Head(transcription_queue)
                 /\ silence' = silence
        /\ TurnStepBeforeSpeechEnds => silence' = silence
        /\ (pc = "resume" /\ pc' # "resume") => silence' = 0
      ]_vars

\* a turn started by an utterance that the poll returned in an iteration whose
\* idle time had reached the threshold
C30_Witness ==
    /\ pc = "request"
    /\ user_input = "hello"
    /\ idle_sec >= IDLE_TIMEOUT

\* the idle time read at the top of the iteration had reached the threshold
IdleAtPoll == idle_sec >= IDLE_TIMEOUT

AtListeningPoll == pc \in {"top", "poll"}

\* C32: whenever the loop is at its poll, the history has 1 + 2 * turn_idx
\* entries: the assistant's intro, then for every counted turn one user entry
\* followed by one assistant entry; no turn is recorded in part.
C32_HistoryMatchesTurns ==
    AtListeningPoll
        => /\ Len(history) = 1 + 2 * turn_idx
           /\ history[1] = [role |-> "assistant", content |-> "intro_text"]
           /\ \A t \in 1..turn_idx :
                 /\ history[2 * t].role = "user"
                 /\ history[2 * t + 1].role = "assistant"

\* the loop polls again after two complete turns, one of them idle-injected
C32_Witness ==
    /\ pc = "poll"
    /\ turn_idx = 2
    /\ Len(history) = 5
    /\ \E t \in 1..2 : history[2 * t].content = "[[IDLE]]"

(***************************************************************************)
(* Further claims about the emotion span aggregator (SpecDet)              *)
(***************************************************************************)
\* C12: once stop() has returned from a run that start() began (no second
\* start(), no classifier fault), the durations of all spans recorded in the
\* run - those the drains returned and those still buffered - add up to the
\* time from start() to the sampler's end, give or take one sampling period.
C12_SpansSumToElapsed ==
    (/\ s_pc = "exited" /\ m_pc = "idle" /\ stop_ts # -1
     /\ ~restarted /\ ~faulted)
    => /\ returned + SumDur(_emo_spans) >= (stop_ts - start_ts) - Period
       /\ returned + SumDur(_emo_spans) <= (stop_ts - start_ts) + Period

\* C13: stop() raises nothing in any state of the detector, and whenever it
\* has returned with the stop event set the sampler thread has ended.
C13_StopIsSafe ==
    /\ m_exc = "none"
    /\ (m_pc = "idle" /\ _stop_event) => ~ThreadAlive

\* a step of start()
StartStep ==
    \/ m_pc' \in {"start_27", "start_28", "start_29", "start_30"} /\ m_pc' # m_pc
    \/ m_pc = "start_30" /\ m_pc' = "idle"

\* C20: a step of start() taken while the sampler thread is alive changes
\* neither the buffered spans nor the current label nor the thread.
C20_SecondStartKeepsState ==
    [][ (StartStep /\ ThreadAlive)
           => /\ _emo_spans' = _emo_spans
              /\ current_emotion' = current_emotion
              /\ s_pc' = s_pc
      ]_vars

\* C21: every span in the buffer, and so every span a drain returns (Drain81
\* returns the buffer's content), has a duration of at least zero, under every
\* interleaving of the sampler thread with the calling thread.
C21_DurationsNonNegative ==
    \A i \in 1..Len(_emo_spans) : _emo_spans[i][2] >= 0

====
